---- MODULE Spec2Model ----
(***************************************************************************)
(* A model of sjson (src/sjson.cpp, src/sjson.h): the relaxed-JSON parser, *)
(* the serializer of the WRITE_SUPPORT_ENABLED build, and the list         *)
(* operations over the doubly-linked child chains.                         *)
(*                                                                         *)
(* Text is a sequence of byte codes; a cursor (const char* ) is an index   *)
(* into it, Len(t)+1 being the position of the NUL terminator.  The node   *)
(* store is a sequence of node records, a node pointer its index, 0 the    *)
(* null pointer.  Text buffers live in a second store of the same shape.   *)
(*                                                                         *)
(* valueDouble is kept as an exact decimal (sign, significant digits,      *)
(* position of the decimal point) or as inf / nan; the one-ulp noise of    *)
(* binary floating point is not represented.  The allocator hooks are the  *)
(* defaults and an allocation of a non-zero size succeeds.                 *)
(***************************************************************************)
EXTENDS Integers, Sequences, FiniteSets, TLC

(* ------------------------------ bounds --------------------------------- *)
\* Number of fragments an input document is concatenated from.
MaxFrags == 3
\* Number of fragments a document to be edited is concatenated from.
MaxEditFrags == 4
\* The most allocations of one rendering that succeed before one fails.
MaxBudget == 10
\* The longest string encoded and decoded again.
MaxStrLen == 2
\* The longest text the skipper is called on.
MaxSkipLen == 4
\* The longest text a number or a string is decoded from alone.
MaxLitLen == 4
\* The calls made on one container.
MaxOps == 4
\* The greatest index passed to an operation; the least is -1.
MaxIdx == 3
\* The nodes ever allocated in one run of the list operations.
MaxNodes == 5

(* ------------------------- program constants --------------------------- *)
sJSON_False == 0
sJSON_True == 1
sJSON_NULL == 2
sJSON_Number == 3
sJSON_String == 4
sJSON_Array == 5
sJSON_Object == 6
sJSON_IsReference == 256

\* The null pointer, as a cursor and as a node or buffer pointer.
NULLP == 0
\* Cursor values standing for undefined behaviour that has happened:
\* a read past the NUL terminator, a read through the null pointer, a read
\* of an uninitialized variable, a signed integer overflow.
OOBP == -1
NDEREF == -2
UNINIT == -3
SOVF == -4

(* ------------------------------ bytes ---------------------------------- *)
Ord(c) ==
    CASE c = "{" -> 123 [] c = "}" -> 125 [] c = "[" -> 91 [] c = "]" -> 93
      [] c = ":" -> 58 [] c = "=" -> 61 [] c = "," -> 44 [] c = "sp" -> 32
      [] c = "quote" -> 34 [] c = "bslash" -> 92 [] c = "/" -> 47 [] c = "*" -> 42
      [] c = "nl" -> 10 [] c = "cr" -> 13 [] c = "tab" -> 9 [] c = "bs" -> 8
      [] c = "ff" -> 12 [] c = "vt" -> 11 [] c = "-" -> 45 [] c = "+" -> 43
      [] c = "." -> 46 [] c = "_" -> 95
      [] c = "0" -> 48 [] c = "1" -> 49 [] c = "2" -> 50 [] c = "3" -> 51
      [] c = "4" -> 52 [] c = "5" -> 53 [] c = "6" -> 54 [] c = "7" -> 55
      [] c = "8" -> 56 [] c = "9" -> 57
      [] c = "A" -> 65 [] c = "E" -> 69 [] c = "F" -> 70 [] c = "X" -> 88
      [] c = "Z" -> 90
      [] c = "a" -> 97 [] c = "b" -> 98 [] c = "c" -> 99 [] c = "d" -> 100
      [] c = "e" -> 101 [] c = "f" -> 102 [] c = "i" -> 105 [] c = "k" -> 107
      [] c = "l" -> 108 [] c = "n" -> 110 [] c = "r" -> 114 [] c = "s" -> 115
      [] c = "t" -> 116 [] c = "u" -> 117 [] c = "x" -> 120 [] c = "z" -> 122

\* The byte codes of a sequence of character names.
Chars(s) == [i \in DOMAIN s |-> Ord(s[i])]

\* *p for a cursor p at or before the terminator.
Rd(t, p) == IF p <= Len(t) THEN t[p] ELSE 0

IsDigit(c) == c >= Ord("0") /\ c <= Ord("9")

\* v under a name in the expression F.
Let(v, F(_)) == F(v)

RECURSIVE Pow2(_)
Pow2(k) == IF k = 0 THEN 1 ELSE 2 * Pow2(k - 1)

\* a | b and a & b on non-negative integers.
RECURSIVE BitOr(_, _)
BitOr(a, b) ==
    IF a = 0 THEN b
    ELSE IF b = 0 THEN a
    ELSE (IF a % 2 = 1 \/ b % 2 = 1 THEN 1 ELSE 0) + 2 * BitOr(a \div 2, b \div 2)

RECURSIVE BitAnd(_, _)
BitAnd(a, b) ==
    IF a = 0 \/ b = 0 THEN 0
    ELSE (IF a % 2 = 1 /\ b % 2 = 1 THEN 1 ELSE 0) + 2 * BitAnd(a \div 2, b \div 2)

(* ----------------------------- skipper --------------------------------- *)
\* while (in && *in && (unsigned char)*in<=32) ++in;
RECURSIVE SkipWs(_, _)
SkipWs(t, p) == IF Rd(t, p) # 0 /\ Rd(t, p) <= 32 THEN SkipWs(t, p + 1) ELSE p

\* while(*in && ((*in != 10 && *in != 13))) ++in;
RECURSIVE SkipLine(_, _)
SkipLine(t, p) ==
    IF Rd(t, p) # 0 /\ Rd(t, p) # 10 /\ Rd(t, p) # 13 THEN SkipLine(t, p + 1) ELSE p

\* while(*in && (*in != '*')) ++in;
RECURSIVE FindStar(_, _)
FindStar(t, p) ==
    IF Rd(t, p) # 0 /\ Rd(t, p) # Ord("*") THEN FindStar(t, p + 1) ELSE p

\* From the label find_next to "in += 2".  With the cursor on the terminator
\* *(in+1) is a read past it; with the cursor on a final '*' the cursor
\* steps over the terminator and the enclosing loop reads there next.
RECURSIVE SkipBlock(_, _)
SkipBlock(t, p) ==
    LET q == FindStar(t, p) IN
    IF q > Len(t) THEN OOBP
    ELSE IF Rd(t, q + 1) # 0 /\ Rd(t, q + 1) # Ord("/") THEN SkipBlock(t, q + 1)
    ELSE IF q + 2 > Len(t) + 1 THEN OOBP
    ELSE q + 2

\* skip(): the while at line 317 guards the null pointer, the test at
\* line 319 reads through it.
RECURSIVE skip(_, _)
skip(t, in) ==
    IF in < 0 THEN in
    ELSE IF in = NULLP THEN NDEREF
    ELSE LET p == SkipWs(t, in) IN
         IF Rd(t, p) = Ord("/")
         THEN IF Rd(t, p + 1) = Ord("/") THEN skip(t, SkipLine(t, p))
              ELSE IF Rd(t, p + 1) = Ord("*") THEN skip(t, SkipBlock(t, p))
              ELSE p
         ELSE p

(* --------------------------- number codec ------------------------------ *)
\* A double, as far as the codec can tell doubles apart: k = "fin" is the
\* value (neg ? -1 : 1) * 0.d1 d2 ... dn * 10^pt with d1 # 0 and dn # 0
\* (zero: no digits, pt = 0; -0.0 == 0.0 and both render "0").
Zero == [k |-> "fin", neg |-> FALSE, digs |-> << >>, pt |-> 0]
Inf(neg) == [k |-> "inf", neg |-> neg, digs |-> << >>, pt |-> 0]
NaN == [k |-> "nan", neg |-> FALSE, digs |-> << >>, pt |-> 0]

\* <float.h>: DBL_MAX = 1.7976931348623157e308, DBL_EPSILON =
\* 2.220446049250313e-16, the least positive double is about 4.9e-324;
\* <limits.h>: INT_MAX = 2147483647, INT_MIN = -2147483648.
DBL_MAX_10_EXP == 308
DENORM_MIN_10_EXP == -323
DBL_MAX_DIGS == <<1, 7, 9, 7, 6, 9, 3, 1, 3, 4, 8, 6, 2, 3, 1, 5, 7>>
DBL_EPSILON_DIGS == <<2, 2, 2, 0, 4, 4, 6, 0, 4, 9, 2, 5, 0, 3, 1, 3>>
DBL_EPSILON_PT == -15
INT_MAX_DIGS == <<2, 1, 4, 7, 4, 8, 3, 6, 4, 7>>
INT_MIN_DIGS == <<2, 1, 4, 7, 4, 8, 3, 6, 4, 8>>

RECURSIVE StripLead(_)
StripLead(ds) ==
    IF ds # << >> /\ Head(ds) = 0 THEN StripLead(Tail(ds)) ELSE ds

RECURSIVE StripTrail(_)
StripTrail(ds) ==
    IF ds # << >> /\ ds[Len(ds)] = 0 THEN StripTrail(SubSeq(ds, 1, Len(ds) - 1)) ELSE ds

\* Digit strings of two numbers 0.a and 0.b compared: -1, 0, 1.
RECURSIVE LexCmp(_, _)
LexCmp(a, b) ==
    IF a = << >> THEN (IF StripLead(b) = << >> THEN 0 ELSE -1)
    ELSE IF b = << >> THEN (IF StripLead(a) = << >> THEN 0 ELSE 1)
    ELSE IF Head(a) < Head(b) THEN -1
    ELSE IF Head(a) > Head(b) THEN 1
    ELSE LexCmp(Tail(a), Tail(b))

RECURSIVE IntOf(_)
IntOf(ds) == IF ds = << >> THEN 0 ELSE 10 * IntOf(SubSeq(ds, 1, Len(ds) - 1)) + ds[Len(ds)]

RECURSIVE DigitsOf(_)
DigitsOf(n) == IF n < 10 THEN <<n>> ELSE Append(DigitsOf(n \div 10), n % 10)

Zeros(n) == [i \in 1..n |-> 0]

\* sign * n * pow(10.0, x) for the integer n = digs: pow overflows to inf
\* above DBL_MAX_10_EXP and underflows to 0 below DENORM_MIN_10_EXP, and so
\* does the product.
MkDec(neg, digsRaw, x) ==
    LET d1 == StripLead(digsRaw)
        d2 == StripTrail(d1)
        pt == Len(d1) + x
    IN  IF x > DBL_MAX_10_EXP THEN (IF d1 = << >> THEN NaN ELSE Inf(neg))
        ELSE IF d1 = << >> \/ x < DENORM_MIN_10_EXP THEN Zero
        ELSE IF pt > DBL_MAX_10_EXP + 1
                \/ (pt = DBL_MAX_10_EXP + 1 /\ LexCmp(d2, DBL_MAX_DIGS) > 0) THEN Inf(neg)
        ELSE IF pt < DENORM_MIN_10_EXP THEN Zero
        ELSE [k |-> "fin", neg |-> neg, digs |-> d2, pt |-> pt]

\* a == b on doubles.
NumEq(a, b) == a.k # "nan" /\ b.k # "nan" /\ a = b

\* |d| compared with 0.m * 10^mpt: -1, 0, 1 (d finite).
MagCmp(d, m, mpt) ==
    IF d.digs = << >> THEN -1
    ELSE IF d.pt < mpt THEN -1
    ELSE IF d.pt > mpt THEN 1
    ELSE LexCmp(d.digs, m)

\* INT_MIN <= d <= INT_MAX
InIntRange(d) ==
    /\ d.k = "fin"
    /\ MagCmp(d, IF d.neg THEN INT_MIN_DIGS ELSE INT_MAX_DIGS, 10) <= 0

\* The digits of d before the decimal point (none when |d| < 1).
IntPart(d) ==
    IF d.pt <= 0 THEN << >>
    ELSE IF Len(d.digs) >= d.pt THEN SubSeq(d.digs, 1, d.pt)
    ELSE d.digs \o Zeros(d.pt - Len(d.digs))

\* The fraction |d| - trunc(|d|) as a value 0.digs * 10^pt of its own.
FracPart(d) ==
    LET raw == IF d.pt <= 0 THEN d.digs
               ELSE IF Len(d.digs) > d.pt THEN SubSeq(d.digs, d.pt + 1, Len(d.digs))
               ELSE << >>
        lead == Len(raw) - Len(StripLead(raw))
    IN  [k |-> "fin", neg |-> FALSE, digs |-> StripLead(raw),
         pt |-> IF StripLead(raw) = << >> THEN 0
                ELSE (IF d.pt <= 0 THEN d.pt ELSE 0) - lead]

\* (int)n: truncation toward zero; undefined when the value does not fit.
IntVal(v) == [ok |-> TRUE, v |-> v]
IndetInt == [ok |-> FALSE, v |-> 0]
ToInt(d) ==
    IF InIntRange(d) /\ ~(d.neg /\ IntPart(d) = INT_MIN_DIGS)
    THEN IntVal((IF d.neg THEN -1 ELSE 1) * IntOf(IntPart(d)))
    ELSE IF InIntRange(d) THEN IntVal(-2147483647 - 1)
    ELSE IndetInt

RECURSIVE DigEnd(_, _)
DigEnd(t, p) == IF IsDigit(Rd(t, p)) THEN DigEnd(t, p + 1) ELSE p

DigSeq(t, a, b) == [i \in 1..(b - a) |-> t[a + i - 1] - Ord("0")]

\* n = (n*10.0) + (*num++ - '0') over the digits ds, from the integer n.
RECURSIVE Accum(_, _)
Accum(n, ds) == IF ds = << >> THEN n ELSE Accum(n * 10 + Head(ds), Tail(ds))

\* parse_number: the cursor after the literal and the value.  The do-loop
\* of the fractional part consumes the character after '.' whatever it is;
\* when that is the terminator the loop condition reads past it.
\* Sign, leading zero and integer digits from num: whether there is a sign,
\* the cursor after the digits, and the digits.
NumInt(t, num) ==
    Let(Rd(t, num) = Ord("-"), LAMBDA neg :
    Let(IF neg THEN num + 1 ELSE num, LAMBDA p1 :
    Let(IF Rd(t, p1) = Ord("0") THEN p1 + 1 ELSE p1, LAMBDA p2 :
    Let(Rd(t, p2) >= Ord("1") /\ Rd(t, p2) <= Ord("9"), LAMBDA hasInt :
    Let(IF hasInt THEN DigEnd(t, p2) ELSE p2, LAMBDA p3 :
        [neg |-> neg, p3 |-> p3, int |-> IF hasInt THEN DigSeq(t, p2, p3) ELSE << >>]
    )))))

\* The fractional part from p3: whether there is one, the cursor after it,
\* the scale, and the sign and digits of n after it.
NumFrac(t, neg, p3, int) ==
    Let(Rd(t, p3) = Ord("."), LAMBDA hasFrac :
    Let(Rd(t, p3 + 1) - Ord("0"), LAMBDA v1 :
    Let(IF hasFrac THEN DigEnd(t, p3 + 2) ELSE p3, LAMBDA p4 :
    Let(IF hasFrac THEN DigSeq(t, p3 + 2, p4) ELSE << >>, LAMBDA frac :
    Let(~hasFrac \/ (v1 >= 0 /\ v1 <= 9), LAMBDA plain :
    Let(Accum(IntOf(int) * 10 + v1, frac), LAMBDA odd :
        [has |-> hasFrac,
         p4 |-> p4,
         scale |-> IF hasFrac THEN 0 - (1 + Len(frac)) ELSE 0,
         mneg |-> IF plain THEN neg ELSE (neg # (odd < 0)),
         mant |-> IF ~hasFrac THEN int
                  ELSE IF plain THEN int \o <<v1>> \o frac
                  ELSE DigitsOf(IF odd < 0 THEN 0 - odd ELSE odd)]
    ))))))

\* The exponent from p4: the cursor after it, its sign and its digits.
NumExp(t, p4) ==
    Let(Rd(t, p4) = Ord("e") \/ Rd(t, p4) = Ord("E"), LAMBDA hasExp :
    Let(IF ~hasExp THEN p4
        ELSE IF Rd(t, p4 + 1) = Ord("+") \/ Rd(t, p4 + 1) = Ord("-") THEN p4 + 2
        ELSE p4 + 1, LAMBDA p5 :
    Let(IF hasExp THEN DigEnd(t, p5) ELSE p4, LAMBDA p6 :
        [p6 |-> p6,
         eneg |-> hasExp /\ Rd(t, p4 + 1) = Ord("-"),
         edigs |-> IF hasExp THEN StripLead(DigSeq(t, p5, p6)) ELSE << >>]
    )))

ScanNumber(t, num) ==
    Let(NumInt(t, num), LAMBDA a :
    Let(NumFrac(t, a.neg, a.p3, a.int), LAMBDA f :
    Let(NumExp(t, f.p4), LAMBDA e :
        IF f.has /\ a.p3 + 1 > Len(t) THEN [p |-> OOBP, val |-> Zero]
        ELSE IF Len(e.edigs) > 10 \/ (Len(e.edigs) = 10 /\ LexCmp(e.edigs, INT_MAX_DIGS) > 0)
        THEN [p |-> SOVF, val |-> Zero]
        ELSE [p |-> e.p6,
              val |-> MkDec(f.mneg, f.mant,
                            f.scale + (IF e.eneg THEN 0 - IntOf(e.edigs) ELSE IntOf(e.edigs)))]
    )))

(* ------------------------------ store ---------------------------------- *)
\* The build: TRUE when WRITE_SUPPORT_ENABLED is defined (sjson.h turns it
\* on under _DEBUG), which adds the field nameString and the serializer.
VARIABLE ws
\* The pipeline of one document: the input text, the step reached
\* ("start", "parsed", "printed", "reparsed"), what sJSONparse(text) gave,
\* what sJSONprint / sJSONprintUnformatted gave for its tree, and what
\* sJSONparse gave for that text.
VARIABLES text, pc, res, printed, res2
\* A container under the list operations: the store, the root container,
\* the detached or fresh nodes the caller holds, the last call with its
\* arguments, result and the store before it, and the number of calls.
VARIABLES heap, root, hand, last, ops
\* A second text derived from the first with what sJSONparse gave for it,
\* and a cursor into the text: where a routine started and what it returned.
VARIABLES twin, cur

vars == <<ws, text, pc, res, printed, res2, heap, root, hand, last, ops, twin, cur>>
pipeVars == <<text, pc, res, printed, res2>>
listVars == <<heap, root, hand, last, ops>>
auxVars == <<twin, cur>>

\* memset(node,0,sizeof(sJSON))
ZeroNode ==
    [next |-> NULLP, prev |-> NULLP, child |-> NULLP, type |-> 0,
     valueString |-> NULLP, valueInt |-> IntVal(0), valueDouble |-> Zero,
     nameString |-> NULLP, nameHash |-> 0]

\* The store: the nodes and text buffers ever allocated, which of them are
\* live, the static error pointer ep with the statement that set it, and
\* the first memory fault (a use after free, a double free).  The
\* allocator's answers to the serializer are planned: budget is the number
\* of calls of sJSON_malloc that succeed before one returns null (-1: none
\* does), after tells whether the calls after that one succeed, denied
\* counts the calls that returned null.  The parser and the list operations
\* run with no failure planned.
EmptyStore ==
    [nodes |-> << >>, bufs |-> << >>, liveN |-> {}, liveB |-> {},
     ep |-> NULLP, site |-> "none", fault |-> "none",
     budget |-> -1, after |-> TRUE, denied |-> 0]

\* sJSON_New_Item: the new node is Len(S.nodes).
New_Item(S) ==
    [S EXCEPT !.nodes = Append(@, ZeroNode), !.liveN = @ \cup {Len(S.nodes) + 1}]

\* sJSON_malloc of a text buffer of cap bytes, then filled with data and a
\* terminating NUL: the new buffer is Len(S.bufs).
NewBuf(S, data, cap) ==
    [S EXCEPT !.bufs = Append(@, [data |-> data, cap |-> cap]),
              !.liveB = @ \cup {Len(S.bufs) + 1}]

\* sJSON_malloc(cap) by the serializer, the buffer then filled with data:
\* the store and the pointer returned.
sJSON_malloc(S, data, cap) ==
    IF S.budget = 0
    THEN [S |-> [S EXCEPT !.budget = IF S.after THEN -1 ELSE 0, !.denied = @ + 1],
          p |-> NULLP]
    ELSE Let(NewBuf([S EXCEPT !.budget = IF @ > 0 THEN @ - 1 ELSE @], data, cap), LAMBDA S1 :
             [S |-> S1, p |-> Len(S1.bufs)])

\* A buffer read as a C string: the bytes before the first NUL.
RECURSIVE CStr(_)
CStr(data) ==
    IF data = << >> \/ Head(data) = 0 THEN << >> ELSE <<Head(data)>> \o CStr(Tail(data))

\* A result of a parsing routine: the store and the cursor it returns.
Ret(S, p) == [S |-> S, p |-> p]

\* eastl::murmurString: a 32-bit hash of the key's bytes, sensitive to
\* their order and case.
RECURSIVE murmurString(_)
murmurString(str) ==
    IF str = << >> THEN 0
    ELSE (murmurString(SubSeq(str, 1, Len(str) - 1)) * 31 + str[Len(str)]) % 65521

\* sJSON_free of a text buffer.
FreeBuf(S, b) ==
    IF b \in S.liveB THEN [S EXCEPT !.liveB = @ \ {b}]
    ELSE [S EXCEPT !.fault = IF @ = "none" THEN "dfree" ELSE @]

\* sJSONdelete without the tests of sJSON_IsReference.
RECURSIVE DeleteThroughReferences(_, _)
DeleteThroughReferences(S, c) ==
    IF c = NULLP \/ S.fault # "none" THEN S
    ELSE IF c \notin S.liveN THEN [S EXCEPT !.fault = "uaf"]
    ELSE LET n == S.nodes[c]
             S1 == IF n.child # NULLP THEN DeleteThroughReferences(S, n.child) ELSE S
             S2 == IF n.valueString # NULLP THEN FreeBuf(S1, n.valueString) ELSE S1
             S3 == IF ws /\ n.nameString # NULLP THEN FreeBuf(S2, n.nameString) ELSE S2
             S4 == IF c \in S3.liveN THEN [S3 EXCEPT !.liveN = @ \ {c}]
                   ELSE [S3 EXCEPT !.fault = IF @ = "none" THEN "dfree" ELSE @]
         IN  DeleteThroughReferences(S4, n.next)

\* sJSONdelete: the sibling chain from c, each node with what it owns.
RECURSIVE sJSONdelete(_, _)
sJSONdelete(S, c) ==
    IF c = NULLP \/ S.fault # "none" THEN S
    ELSE IF c \notin S.liveN THEN [S EXCEPT !.fault = "uaf"]
    ELSE LET n == S.nodes[c]
             owns == n.type \div sJSON_IsReference % 2 = 0
             S1 == IF owns /\ n.child # NULLP THEN sJSONdelete(S, n.child) ELSE S
             S2 == IF owns /\ n.valueString # NULLP THEN FreeBuf(S1, n.valueString) ELSE S1
             S3 == IF ws /\ n.nameString # NULLP THEN FreeBuf(S2, n.nameString) ELSE S2
             S4 == IF c \in S3.liveN THEN [S3 EXCEPT !.liveN = @ \ {c}]
                   ELSE [S3 EXCEPT !.fault = IF @ = "none" THEN "dfree" ELSE @]
         IN  sJSONdelete(S4, n.next)

(* --------------------- string / identifier codec ----------------------- *)
IsIdStart(c) ==
    \/ c = Ord("_")
    \/ (c >= Ord("a") /\ c <= Ord("z"))
    \/ (c >= Ord("A") /\ c <= Ord("Z"))

IsIdChar(c) == IsIdStart(c) \/ IsDigit(c)

RECURSIVE IdEnd(_, _)
IdEnd(t, p) == IF Rd(t, p) # 0 /\ IsIdChar(Rd(t, p)) THEN IdEnd(t, p + 1) ELSE p

IsSpace(c) == c = Ord("sp") \/ (c >= Ord("tab") /\ c <= Ord("cr"))

IsHex(c) ==
    \/ IsDigit(c)
    \/ (c >= Ord("a") /\ c <= Ord("f"))
    \/ (c >= Ord("A") /\ c <= Ord("F"))

HexVal(c) ==
    IF IsDigit(c) THEN c - Ord("0")
    ELSE IF c >= Ord("a") THEN c - Ord("a") + 10
    ELSE c - Ord("A") + 10

RECURSIVE SkipSpace(_, _)
SkipSpace(t, p) == IF IsSpace(Rd(t, p)) THEN SkipSpace(t, p + 1) ELSE p

\* Up to w hexadecimal digits from p: their count and value.
RECURSIVE HexRun(_, _, _, _, _)
HexRun(t, p, w, cnt, acc) ==
    IF w > 0 /\ IsHex(Rd(t, p)) THEN HexRun(t, p + 1, w - 1, cnt + 1, acc * 16 + HexVal(Rd(t, p)))
    ELSE [cnt |-> cnt, val |-> acc]

\* An unsigned 32-bit value as its two 16-bit halves.
U32(v) == [hi |-> 0, lo |-> v]
U32Neg(v) == IF v = 0 THEN U32(0) ELSE [hi |-> 65535, lo |-> 65536 - v]

\* sscanf(ptr+1,"%4x",&uc): white space is skipped, then a sign, a 0x
\* prefix and hexadecimal digits are read, four characters at most.
ScanHex4(t, p) ==
    Let(SkipSpace(t, p), LAMBDA q :
    Let(Rd(t, q) = Ord("-") \/ Rd(t, q) = Ord("+"), LAMBDA sgn :
    Let(IF sgn THEN q + 1 ELSE q, LAMBDA q1 :
    Let(IF sgn THEN 3 ELSE 4, LAMBDA w1 :
    Let(/\ w1 >= 2
        /\ Rd(t, q1) = Ord("0")
        /\ (Rd(t, q1 + 1) = Ord("x") \/ Rd(t, q1 + 1) = Ord("X")), LAMBDA pre :
    Let(IF pre THEN HexRun(t, q1 + 2, w1 - 2, 1, 0) ELSE HexRun(t, q1, w1, 0, 0), LAMBDA run :
        [ok |-> run.cnt > 0,
         uc |-> IF Rd(t, q) = Ord("-") THEN U32Neg(run.val) ELSE U32(run.val)]
    ))))))

\* firstByteMark[len]
firstByteMark(len) == CASE len = 1 -> 0 [] len = 2 -> 192 [] len = 3 -> 224

\* (uc | 0x80) stored into a char, bit 6 not cleared.
ContByteNoMask(x) == BitOr(x % 256, 128)

\* ((uc | 0x80) & 0xBF) stored into a char
ContByte(x) == BitAnd(BitOr(x % 256, 128), 191)

\* The bytes the 'u' case of parse_string stores for uc.
Utf8(uc) ==
    Let(IF uc.hi = 0 /\ uc.lo < 128 THEN 1
        ELSE IF uc.hi = 0 /\ uc.lo < 2048 THEN 2
        ELSE 3, LAMBDA len :
    Let(uc.hi * 1024 + uc.lo \div 64, LAMBDA s6 :
    Let(uc.hi * 16 + uc.lo \div 4096, LAMBDA s12 :
        CASE len = 1 -> <<BitOr(uc.lo % 256, firstByteMark(1))>>
          [] len = 2 -> <<BitOr(s6 % 256, firstByteMark(2)), ContByte(uc.lo)>>
          [] len = 3 -> <<BitOr(s12 % 256, firstByteMark(3)), ContByte(s6), ContByte(uc.lo)>>
    )))

\* The measuring pass of parse_string: the length, or OOBP when a
\* backslash before the terminator takes the cursor past it.
RECURSIVE StrMeasure(_, _, _)
StrMeasure(t, ptr, len) ==
    IF Rd(t, ptr) = Ord("quote") \/ Rd(t, ptr) = 0 THEN len
    ELSE IF Rd(t, ptr) # Ord("bslash") THEN StrMeasure(t, ptr + 1, len + 1)
    ELSE IF ptr + 1 > Len(t) THEN OOBP
    ELSE StrMeasure(t, ptr + 2, len + 1)

\* The character after the backslash stored as it is.
UnescapeNone(c) == c

\* switch (*ptr) of parse_string: the byte stored for an escape letter.
Unescape(c) ==
    CASE c = Ord("b") -> Ord("bs") [] c = Ord("f") -> Ord("ff") [] c = Ord("n") -> Ord("nl")
      [] c = Ord("r") -> Ord("cr") [] c = Ord("t") -> Ord("tab") [] OTHER -> c

\* The copying pass: the cursor where it stops and the bytes stored.  uc
\* keeps its value from one escape to the next and has none at first.
RECURSIVE StrCopy(_, _, _, _)
StrCopy(t, ptr, out, uc) ==
    Let(Rd(t, ptr), LAMBDA c :
    Let(Rd(t, ptr + 1), LAMBDA e :
        IF c = Ord("quote") \/ c = 0 THEN [p |-> ptr, out |-> out]
        ELSE IF c # Ord("bslash") THEN StrCopy(t, ptr + 1, Append(out, c), uc)
        ELSE IF e # Ord("u") THEN StrCopy(t, ptr + 2, Append(out, Unescape(e)), uc)
        ELSE Let(ScanHex4(t, ptr + 2), LAMBDA scan :
             IF ~scan.ok /\ uc = << >> THEN [p |-> UNINIT, out |-> out]
             ELSE IF ptr + 6 > Len(t) + 1 THEN [p |-> OOBP, out |-> out]
             ELSE Let(IF scan.ok THEN scan.uc ELSE uc[1], LAMBDA v :
                  StrCopy(t, ptr + 6, out \o Utf8(v), <<v>>)))
    ))

\* A write past the end of a heap buffer.
HOVF == -5

\* parse_string
parse_string(t, S, item, str) ==
    IF Rd(t, str) # Ord("quote") THEN Ret([S EXCEPT !.ep = str, !.site = "string"], NULLP)
    ELSE Let(StrMeasure(t, str + 1, 0), LAMBDA len :
         Let(StrCopy(t, str + 1, << >>, << >>), LAMBDA cp :
         Let(NewBuf(S, cp.out, len + 1), LAMBDA S1 :
             IF len < 0 THEN Ret(S, len)
             ELSE IF cp.p < 0 THEN Ret(S, cp.p)
             ELSE IF Len(cp.out) + 1 > len + 1 THEN Ret(S, HOVF)
             ELSE Ret([S1 EXCEPT !.nodes[item].valueString = Len(S1.bufs),
                                 !.nodes[item].type = sJSON_String],
                      IF Rd(t, cp.p) = Ord("quote") THEN cp.p + 1 ELSE cp.p)
         )))

\* parse_string_or_identifier
parse_string_or_identifier(t, S, item, str) ==
    IF str < 0 THEN Ret(S, str)
    ELSE IF Rd(t, str) = Ord("quote") THEN parse_string(t, S, item, str)
    ELSE IF IsIdStart(Rd(t, str))
    THEN Let(IdEnd(t, str), LAMBDA e :
         Let(NewBuf(S, SubSeq(t, str, e - 1), e - str + 1), LAMBDA S1 :
             Ret([S1 EXCEPT !.nodes[item].valueString = Len(S1.bufs),
                            !.nodes[item].type = sJSON_String], e)
         ))
    ELSE Ret([S EXCEPT !.ep = str, !.site = "key"], NULLP)

\* parse_number
parse_number(t, S, item, num) ==
    Let(ScanNumber(t, num), LAMBDA r :
        IF r.p < 0 THEN Ret(S, r.p)
        ELSE Ret([S EXCEPT !.nodes[item].valueDouble = r.val,
                           !.nodes[item].valueInt = ToInt(r.val),
                           !.nodes[item].type = sJSON_Number], r.p)
    )

(* ---------------------------- parser core ------------------------------ *)
\* !strncmp(value, w, Len(w))
HasPrefix(t, p, w) == \A i \in 1..Len(w) : Rd(t, p + i - 1) = w[i]

\* The two statements after a member's key is parsed: the hash is taken
\* from the key text, the text goes to nameString in the build that has it,
\* and valueString is cleared.
KeyToName(S, child) ==
    LET b == S.nodes[child].valueString IN
    [S EXCEPT !.nodes[child].nameHash = murmurString(CStr(S.bufs[b].data)),
              !.nodes[child].nameString = IF ws THEN b ELSE NULLP,
              !.nodes[child].valueString = NULLP]

\* child->next=new_item; new_item->prev=child; for a fresh new_item
LinkNew(S, child) ==
    Let(New_Item(S), LAMBDA S1 :
        [S1 EXCEPT !.nodes[child].next = Len(S1.nodes), !.nodes[Len(S1.nodes)].prev = child])

RECURSIVE parse_value(_, _, _, _)
RECURSIVE parse_array(_, _, _, _)
RECURSIVE ArrayLoop(_, _, _, _)
RECURSIVE parse_object(_, _, _, _)
RECURSIVE ObjectLoop(_, _, _, _)
RECURSIVE ObjectMember(_, _, _, _)

\* parse_value
parse_value(t, S, item, value) ==
    IF value <= 0 THEN Ret(S, value)
    ELSE IF HasPrefix(t, value, Chars(<<"n", "u", "l", "l">>))
    THEN Ret([S EXCEPT !.nodes[item].type = sJSON_NULL], value + 4)
    ELSE IF HasPrefix(t, value, Chars(<<"f", "a", "l", "s", "e">>))
    THEN Ret([S EXCEPT !.nodes[item].type = sJSON_False], value + 5)
    ELSE IF HasPrefix(t, value, Chars(<<"t", "r", "u", "e">>))
    THEN Ret([S EXCEPT !.nodes[item].type = sJSON_True,
                       !.nodes[item].valueInt = IntVal(1)], value + 4)
    ELSE IF Rd(t, value) = Ord("-") \/ IsDigit(Rd(t, value)) THEN parse_number(t, S, item, value)
    ELSE IF Rd(t, value) = Ord("[") THEN parse_array(t, S, item, value)
    ELSE IF Rd(t, value) = Ord("{") THEN parse_object(t, S, item, skip(t, value + 1))
    ELSE IF Rd(t, value) = Ord("quote") THEN parse_string(t, S, item, value)
    ELSE Ret([S EXCEPT !.ep = value, !.site = "value"], NULLP)

\* The while loop of parse_array without the step over a comma.
ArrayLoopCommaKept(t, S, child, value) ==
    IF Rd(t, value) = Ord("]") THEN Ret(S, value + 1)
    ELSE Let(LinkNew(S, child), LAMBDA S1 :
         Let(parse_value(t, S1, Len(S1.nodes), skip(t, value)), LAMBDA r :
         Let(skip(t, r.p), LAMBDA v :
             IF v <= 0 THEN Ret(r.S, v) ELSE ArrayLoop(t, r.S, Len(S1.nodes), v)
         )))

\* The while loop of parse_array, child being the last element parsed, and
\* the return after it.
ArrayLoop(t, S, child, value) ==
    IF Rd(t, value) = Ord("]") THEN Ret(S, value + 1)
    ELSE Let(LinkNew(S, child), LAMBDA S1 :
         Let(parse_value(t, S1, Len(S1.nodes),
                         skip(t, IF Rd(t, value) = Ord(",") THEN value + 1 ELSE value)), LAMBDA r :
         Let(skip(t, r.p), LAMBDA v :
             IF v <= 0 THEN Ret(r.S, v) ELSE ArrayLoop(t, r.S, Len(S1.nodes), v)
         )))

\* parse_array
parse_array(t, S, item, value) ==
    IF Rd(t, value) # Ord("[") THEN Ret([S EXCEPT !.ep = value, !.site = "array"], NULLP)
    ELSE Let([S EXCEPT !.nodes[item].type = sJSON_Array], LAMBDA S0 :
         Let(skip(t, value + 1), LAMBDA v0 :
             IF v0 < 0 THEN Ret(S0, v0)
             ELSE IF Rd(t, v0) = Ord("]") THEN Ret(S0, v0 + 1)
             ELSE Let(New_Item(S0), LAMBDA S1 :
                  Let(Len(S1.nodes), LAMBDA child :
                  Let(parse_value(t, [S1 EXCEPT !.nodes[item].child = child], child,
                                  skip(t, v0)), LAMBDA r :
                  Let(skip(t, r.p), LAMBDA v :
                      IF v <= 0 THEN Ret(r.S, v) ELSE ArrayLoop(t, r.S, child, v)
                  ))))
         ))

\* One member into the fresh node child: the key, its hash, the separator
\* and the value; the cursor after the value and what follows it is skipped.
ObjectMember(t, S, child, start) ==
    Let(parse_string_or_identifier(t, S, child, start), LAMBDA k :
    Let(skip(t, k.p), LAMBDA v :
        IF v <= 0 THEN Ret(k.S, v)
        ELSE Let(KeyToName(k.S, child), LAMBDA S1 :
             IF Rd(t, v) # Ord(":") /\ Rd(t, v) # Ord("=")
             THEN Ret([S1 EXCEPT !.ep = v, !.site = "separator"], NULLP)
             ELSE Let(parse_value(t, S1, child, skip(t, v + 1)), LAMBDA r :
                  Ret(r.S, skip(t, r.p))))
    ))

\* The while loop of parse_object and the returns after it.
ObjectLoop(t, S, child, value) ==
    IF Rd(t, value) = 0 THEN Ret(S, value)
    ELSE IF Rd(t, value) = Ord("}") THEN Ret(S, value + 1)
    ELSE Let(LinkNew(S, child), LAMBDA S1 :
         Let(ObjectMember(t, S1, Len(S1.nodes),
                          skip(t, IF Rd(t, value) = Ord(",") THEN value + 1 ELSE value)), LAMBDA r :
             IF r.p <= 0 THEN r ELSE ObjectLoop(t, r.S, Len(S1.nodes), r.p)
         ))

\* parse_object: value is the cursor after the opening brace, or the start
\* of the text for the implicit top-level object.
parse_object(t, S, item, value) ==
    IF value < 0 THEN Ret(S, value)
    ELSE Let([S EXCEPT !.nodes[item].type = sJSON_Object], LAMBDA S0 :
             IF Rd(t, value) = Ord("}") THEN Ret(S0, value + 1)
             ELSE Let(New_Item(S0), LAMBDA S1 :
                  Let(Len(S1.nodes), LAMBDA child :
                  Let(ObjectMember(t, [S1 EXCEPT !.nodes[item].child = child], child,
                                   skip(t, value)), LAMBDA r :
                      IF r.p <= 0 THEN r ELSE ObjectLoop(t, r.S, child, r.p)
                  )))
         )

\* sJSONparse: what the caller gets ("tree" with the root, "null", or "ub"
\* when the call ran into undefined behaviour, kind saying which), the
\* store, and the cursor the root's parsing routine returned.
sJSONparse(t) ==
    Let(New_Item([EmptyStore EXCEPT !.ep = NULLP]), LAMBDA S0 :
    Let(Len(S0.nodes), LAMBDA c :
    Let(skip(t, 1), LAMBDA value :
    Let(IF value < 0 THEN Ret(S0, value)
        ELSE IF Rd(t, value) = Ord("{") \/ Rd(t, value) = Ord("[")
        THEN parse_value(t, S0, c, skip(t, value))
        ELSE parse_object(t, S0, c, skip(t, value)), LAMBDA r :
        IF r.p < 0 THEN [status |-> "ub", kind |-> r.p, root |-> NULLP, S |-> r.S, end |-> r.p]
        ELSE IF r.p = NULLP
        THEN [status |-> "null", kind |-> 0, root |-> NULLP, S |-> sJSONdelete(r.S, c),
              end |-> NULLP]
        ELSE [status |-> "tree", kind |-> 0, root |-> c, S |-> r.S, end |-> r.p]
    ))))

(* ----------------------------- serializer ------------------------------ *)
\* 1 - DBL_EPSILON = 0.99999999999999977795539507496869
ONE_MINUS_EPS_DIGS ==
    <<9, 9, 9, 9, 9, 9, 9, 9, 9, 9, 9, 9, 9, 9, 9, 7, 7, 7, 9, 5, 5, 3, 9, 5, 0, 7, 4, 9, 6, 8, 7>>

DigChars(ds) == [i \in DOMAIN ds |-> ds[i] + Ord("0")]

\* ds + 1 on a digit string.
RECURSIVE Inc(_)
Inc(ds) ==
    IF ds = << >> THEN <<1>>
    ELSE IF ds[Len(ds)] < 9 THEN [ds EXCEPT ![Len(ds)] = @ + 1]
    ELSE Append(Inc(SubSeq(ds, 1, Len(ds) - 1)), 0)

\* The first n significant digits of d (zeros appended when it has fewer),
\* rounded on the digit after them.
RoundTo(d, n) ==
    LET kept == IF n <= 0 THEN << >>
                ELSE IF Len(d.digs) >= n THEN SubSeq(d.digs, 1, n)
                ELSE d.digs \o Zeros(n - Len(d.digs))
        up == n >= 0 /\ Len(d.digs) > n /\ d.digs[n + 1] >= 5
    IN  IF up THEN Inc(kept) ELSE kept

SignChars(d) == IF d.neg THEN <<Ord("-")>> ELSE << >>

NonFinite(d) == SignChars(d) \o (IF d.k = "inf" THEN Chars(<<"i", "n", "f">>)
                                 ELSE Chars(<<"n", "a", "n">>))

\* sprintf(str,"%.<prec>f",d)
Fixed(d, prec) ==
    LET r == RoundTo(d, d.pt + prec)
        all == Zeros(IF Len(r) > prec THEN 0 ELSE prec + 1 - Len(r)) \o r
        ip == SubSeq(all, 1, Len(all) - prec)
        fp == SubSeq(all, Len(all) - prec + 1, Len(all))
    IN  IF d.k # "fin" THEN NonFinite(d)
        ELSE SignChars(d) \o DigChars(ip)
             \o (IF prec > 0 THEN <<Ord(".")>> \o DigChars(fp) ELSE << >>)

\* sprintf(str,"%e",d)
Sci(d) ==
    LET r == RoundTo(d, 7)
        carry == Len(r) > 7
        m == SubSeq(r, 1, 7)
        x == IF d.digs = << >> THEN 0 ELSE d.pt - 1 + (IF carry THEN 1 ELSE 0)
        ax == IF x < 0 THEN 0 - x ELSE x
    IN  IF d.k # "fin" THEN NonFinite(d)
        ELSE SignChars(d) \o DigChars(<<m[1]>>) \o <<Ord(".")>> \o DigChars(SubSeq(m, 2, 7))
             \o <<Ord("e"), IF x < 0 THEN Ord("-") ELSE Ord("+")>>
             \o DigChars(IF ax < 10 THEN <<0, ax>> ELSE DigitsOf(ax))

\* sprintf(str,"%d",item->valueInt), valueInt being the truncation of d.
IntText(d) ==
    IF IntPart(d) = << >> THEN <<Ord("0")>> ELSE SignChars(d) \o DigChars(IntPart(d))

\* fabs(((double)item->valueInt)-d)<=DBL_EPSILON && d<=INT_MAX && d>=INT_MIN
NearItsInt(vi, d) ==
    /\ InIntRange(d)
    /\ vi = ToInt(d)
    /\ MagCmp(FracPart(d), DBL_EPSILON_DIGS, DBL_EPSILON_PT) <= 0

\* fabs(floor(d)-d)<=DBL_EPSILON
NearItsFloor(d) ==
    /\ d.k = "fin"
    /\ \/ FracPart(d).digs = << >>
       \/ ~d.neg /\ MagCmp(FracPart(d), DBL_EPSILON_DIGS, DBL_EPSILON_PT) <= 0
       \/ d.neg /\ MagCmp(FracPart(d), ONE_MINUS_EPS_DIGS, 0) >= 0

\* fabs(d)<1.0e-6 || fabs(d)>1.0e9
OutsideFixedRange(d) ==
    \/ d.k = "inf"
    \/ d.k = "fin" /\ (MagCmp(d, <<1>>, -5) < 0 \/ MagCmp(d, <<1>>, 10) > 0)

\* print_number: the buffer with the text of the number of item.
print_number(S, item) ==
    Let(S.nodes[item].valueDouble, LAMBDA d :
        IF NearItsInt(S.nodes[item].valueInt, d) THEN sJSON_malloc(S, IntText(d), 21)
        ELSE sJSON_malloc(S, IF NearItsFloor(d) THEN Fixed(d, 0)
                             ELSE IF OutsideFixedRange(d) THEN Sci(d)
                             ELSE Fixed(d, 6), 64))

HexDigit(v) == IF v < 10 THEN v + Ord("0") ELSE v - 10 + Ord("a")

\* One byte of the string as print_string_ptr writes it.
Escape(c) ==
    IF c > 31 /\ c # Ord("quote") /\ c # Ord("bslash") THEN <<c>>
    ELSE <<Ord("bslash")>> \o
         (CASE c = Ord("bslash") -> <<Ord("bslash")>>
            [] c = Ord("quote") -> <<Ord("quote")>>
            [] c = Ord("bs") -> <<Ord("b")>>
            [] c = Ord("ff") -> <<Ord("f")>>
            [] c = Ord("nl") -> <<Ord("n")>>
            [] c = Ord("cr") -> <<Ord("r")>>
            [] c = Ord("tab") -> <<Ord("t")>>
            [] OTHER -> <<Ord("u"), Ord("0"), Ord("0"), HexDigit(c \div 16), HexDigit(c % 16)>>)

RECURSIVE EscapeAll(_)
EscapeAll(str) == IF str = << >> THEN << >> ELSE Escape(Head(str)) \o EscapeAll(Tail(str))

\* The length the first loop of print_string_ptr counts.
RECURSIVE EscapedLen(_)
EscapedLen(str) ==
    IF str = << >> THEN 0
    ELSE LET c == Head(str) IN
         (IF c \in {Ord("quote"), Ord("bslash"), Ord("bs"), Ord("ff"), Ord("nl"), Ord("cr"),
                    Ord("tab")} THEN 2
          ELSE IF c < 32 THEN 6
          ELSE 1) + EscapedLen(Tail(str))

\* sJSON_strdup: the copy, or null.
sJSON_strdup(S, str) == sJSON_malloc(S, str, Len(str) + 1)

\* print_string_ptr: the buffer with the escaped text of the string in
\* buffer str, of the size the first loop counts.
print_string_ptr(S, str) ==
    IF str = NULLP THEN sJSON_strdup(S, << >>)
    ELSE sJSON_malloc(S, <<Ord("quote")>> \o EscapeAll(CStr(S.bufs[str].data)) \o <<Ord("quote")>>,
                      EscapedLen(CStr(S.bufs[str].data)) + 3)

Tabs(n) == [i \in 1..n |-> Ord("tab")]

\* strlen of the text in buffer p.
StrLen(S, p) == Len(S.bufs[p].data)

\* while (child) {numentries++; child=child->next;}
RECURSIVE NumEntries(_, _)
NumEntries(S, child) == IF child = NULLP THEN 0 ELSE 1 + NumEntries(S, S.nodes[child].next)

\* The sum over the fragments of a table of strlen alone.
RECURSIVE SumLenBare(_, _, _)
SumLenBare(S, ptrs, extra) ==
    IF ptrs = << >> THEN 0 ELSE Len(S.bufs[Head(ptrs)].data) + SumLenBare(S, Tail(ptrs), extra)

\* sJSON_free of every fragment of a table that is not null, the first only.
FreeFirst(S, ptrs) ==
    IF ptrs = << >> \/ Head(ptrs) = NULLP THEN S ELSE FreeBuf(S, Head(ptrs))

\* sJSON_free of every fragment of a table that is not null.
RECURSIVE FreeAll(_, _)
FreeAll(S, ptrs) ==
    IF ptrs = << >> THEN S
    ELSE FreeAll(IF Head(ptrs) = NULLP THEN S ELSE FreeBuf(S, Head(ptrs)), Tail(ptrs))

\* The sum over the fragments of a table of strlen + extra.
RECURSIVE SumLen(_, _, _)
SumLen(S, ptrs, extra) ==
    IF ptrs = << >> THEN 0 ELSE StrLen(S, Head(ptrs)) + extra + SumLen(S, Tail(ptrs), extra)

\* The composing loop of print_array over the fragments ents.
RECURSIVE ArrayText(_, _, _)
ArrayText(S, ents, fmt) ==
    IF ents = << >> THEN << >>
    ELSE S.bufs[Head(ents)].data
         \o (IF Len(ents) > 1
             THEN <<Ord(",")>> \o (IF fmt THEN <<Ord("sp")>> ELSE << >>)
             ELSE << >>)
         \o ArrayText(S, Tail(ents), fmt)

\* The composing loop of print_object over the fragments names and ents;
\* depth is the incremented depth.
RECURSIVE ObjectText(_, _, _, _, _)
ObjectText(S, names, ents, depth, fmt) ==
    IF ents = << >> THEN << >>
    ELSE (IF fmt THEN Tabs(depth) ELSE << >>)
         \o S.bufs[Head(names)].data
         \o <<Ord(":")>> \o (IF fmt THEN <<Ord("tab")>> ELSE << >>)
         \o S.bufs[Head(ents)].data
         \o (IF Len(ents) > 1 THEN <<Ord(",")>> ELSE << >>)
         \o (IF fmt THEN <<Ord("nl")>> ELSE << >>)
         \o ObjectText(S, Tail(names), Tail(ents), depth, fmt)

RECURSIVE print_value(_, _, _, _)
RECURSIVE print_array(_, _, _, _)
RECURSIVE print_object(_, _, _, _)
RECURSIVE ArrayEntries(_, _, _, _, _)
RECURSIVE ObjectEntries(_, _, _, _, _, _, _)

\* print_value: the store and the buffer with the text rendered for item,
\* or null.
print_value(S, item, depth, fmt) ==
    IF item = NULLP THEN Ret(S, NULLP)
    ELSE Let(S.nodes[item].type % sJSON_IsReference, LAMBDA kind :
         CASE kind = sJSON_NULL -> sJSON_strdup(S, Chars(<<"n", "u", "l", "l">>))
           [] kind = sJSON_False -> sJSON_strdup(S, Chars(<<"f", "a", "l", "s", "e">>))
           [] kind = sJSON_True -> sJSON_strdup(S, Chars(<<"t", "r", "u", "e">>))
           [] kind = sJSON_Number -> print_number(S, item)
           [] kind = sJSON_String -> print_string_ptr(S, S.nodes[item].valueString)
           [] kind = sJSON_Array -> print_array(S, item, depth, fmt)
           [] kind = sJSON_Object -> print_object(S, item, depth, fmt)
           [] OTHER -> Ret(S, NULLP))

\* The rendering loop of print_array from entry child on: it stops at the
\* first entry that fails; ents are the fragments rendered so far.
ArrayEntries(S, child, depth, fmt, ents) ==
    IF child = NULLP THEN [S |-> S, ents |-> ents, fail |-> FALSE]
    ELSE Let(print_value(S, child, depth + 1, fmt), LAMBDA r :
             IF r.p = NULLP THEN [S |-> r.S, ents |-> ents, fail |-> TRUE]
             ELSE ArrayEntries(r.S, S.nodes[child].next, depth, fmt, Append(ents, r.p)))

\* print_array: the table of entries, the fragments, the output buffer of
\* the precomputed length, and the release of fragments and table on both
\* ways out.
print_array(S, item, depth, fmt) ==
    Let(sJSON_malloc(S, << >>, NumEntries(S, S.nodes[item].child)), LAMBDA e :
        IF e.p = NULLP THEN Ret(e.S, NULLP)
        ELSE Let(ArrayEntries(e.S, S.nodes[item].child, depth, fmt, << >>), LAMBDA c :
             Let(IF c.fail THEN Ret(c.S, NULLP)
                 ELSE sJSON_malloc(c.S, <<Ord("[")>> \o ArrayText(c.S, c.ents, fmt) \o <<Ord("]")>>,
                                   5 + SumLen(c.S, c.ents, 2 + (IF fmt THEN 1 ELSE 0))), LAMBDA o :
                 Ret(FreeBuf(FreeAll(o.S, c.ents), e.p), o.p)
             )))

\* The rendering loop of print_object from member child on: it goes on
\* after a failure; depth is the incremented depth.
ObjectEntries(S, child, depth, fmt, names, ents, fail) ==
    IF child = NULLP THEN [S |-> S, names |-> names, ents |-> ents, fail |-> fail]
    ELSE Let(print_string_ptr(S, S.nodes[child].nameString), LAMBDA str :
         Let(print_value(str.S, child, depth, fmt), LAMBDA ret :
             ObjectEntries(ret.S, S.nodes[child].next, depth, fmt,
                           Append(names, str.p), Append(ents, ret.p),
                           fail \/ str.p = NULLP \/ ret.p = NULLP)
         ))

\* print_object
print_object(S, item, depth, fmt) ==
    Let(sJSON_malloc(S, << >>, NumEntries(S, S.nodes[item].child)), LAMBDA e :
        IF e.p = NULLP THEN Ret(e.S, NULLP)
        ELSE Let(sJSON_malloc(e.S, << >>, NumEntries(S, S.nodes[item].child)), LAMBDA nm :
             IF nm.p = NULLP THEN Ret(FreeBuf(nm.S, e.p), NULLP)
             ELSE Let(ObjectEntries(nm.S, S.nodes[item].child, depth + 1, fmt, << >>, << >>,
                                    FALSE), LAMBDA c :
                  Let(IF c.fail THEN Ret(c.S, NULLP)
                      ELSE sJSON_malloc(
                               c.S,
                               <<Ord("{")>> \o (IF fmt THEN <<Ord("nl")>> ELSE << >>)
                               \o ObjectText(c.S, c.names, c.ents, depth + 1, fmt)
                               \o (IF fmt THEN Tabs(depth) ELSE << >>) \o <<Ord("}")>>,
                               7 + (IF fmt THEN depth + 1 ELSE 0)
                               + SumLen(c.S, c.ents, 0)
                               + SumLen(c.S, c.names, 2 + (IF fmt THEN 2 + depth + 1 ELSE 0))),
                      LAMBDA o :
                      Ret(FreeBuf(FreeBuf(FreeAll(FreeAll(o.S, c.names), c.ents), nm.p), e.p),
                          o.p)
                  )))
        )

(* --------------------------- list operations --------------------------- *)
\* sJSONgetArraySize: the loop counting the chain from c.
RECURSIVE CountFrom(_, _, _)
CountFrom(S, c, i) == IF c # NULLP THEN CountFrom(S, S.nodes[c].next, i + 1) ELSE i

sJSONgetArraySize(S, array) == CountFrom(S, S.nodes[array].child, 0)

\* while (c && item>0) {item--; c=c->next;}
RECURSIVE WalkIndex(_, _, _)
WalkIndex(S, c, item) ==
    IF c # NULLP /\ item > 0 THEN WalkIndex(S, S.nodes[c].next, item - 1) ELSE c

sJSONgetArrayItem(S, array, item) == WalkIndex(S, S.nodes[array].child, item)

\* while(c && (c->nameHash != stringHash)) {i++; c=c->next;}
RECURSIVE WalkHash(_, _, _, _)
WalkHash(S, c, stringHash, i) ==
    IF c # NULLP /\ S.nodes[c].nameHash # stringHash
    THEN WalkHash(S, S.nodes[c].next, stringHash, i + 1)
    ELSE [c |-> c, i |-> i]

\* sJSONgetObjectItem returning the last member with the hash.
RECURSIVE WalkHashLast(_, _, _, _)
WalkHashLast(S, c, stringHash, found) ==
    IF c = NULLP THEN found
    ELSE WalkHashLast(S, S.nodes[c].next, stringHash,
                      IF S.nodes[c].nameHash = stringHash THEN c ELSE found)

GetObjectItemLast(S, object, stringHash) ==
    WalkHashLast(S, S.nodes[object].child, stringHash, NULLP)

sJSONgetObjectItem(S, object, stringHash) == WalkHash(S, S.nodes[object].child, stringHash, 0).c

\* suffix_object without item->prev=prev.
SuffixNoPrev(S, prev, item) == [S EXCEPT !.nodes[prev].next = item]

suffix_object(S, prev, item) == [S EXCEPT !.nodes[prev].next = item, !.nodes[item].prev = prev]

\* while (c && c->next) c=c->next;
RECURSIVE WalkTail(_, _)
WalkTail(S, c) ==
    IF c # NULLP /\ S.nodes[c].next # NULLP THEN WalkTail(S, S.nodes[c].next) ELSE c

\* sJSONaddItemToArray putting the item at the head of the list.
AddAtHead(S, array, item) ==
    IF item = NULLP THEN S ELSE [S EXCEPT !.nodes[array].child = item]

sJSONaddItemToArray(S, array, item) ==
    IF item = NULLP THEN S
    ELSE IF S.nodes[array].child = NULLP THEN [S EXCEPT !.nodes[array].child = item]
    ELSE suffix_object(S, WalkTail(S, S.nodes[array].child), item)

\* create_reference: the reference is the new node Len(S.nodes), a copy of
\* item with the flag set and without name and sibling links.
create_reference(S, item) ==
    Let(New_Item(S), LAMBDA S1 :
        [S1 EXCEPT !.nodes[Len(S1.nodes)] =
            [S.nodes[item] EXCEPT
                !.nameString = NULLP,
                !.nameHash = 0,
                !.type = IF @ \div sJSON_IsReference % 2 = 1 THEN @ ELSE @ + sJSON_IsReference,
                !.next = NULLP,
                !.prev = NULLP]])

sJSONaddItemReferenceToArray(S, array, item) ==
    Let(create_reference(S, item), LAMBDA S1 : sJSONaddItemToArray(S1, array, Len(S1.nodes)))

\* item->nameString = sJSON_strdup(string), in the build that has the field.
SetNameString(S, item, string) ==
    IF ws
    THEN Let(sJSON_strdup(S, string), LAMBDA r : [r.S EXCEPT !.nodes[item].nameString = r.p])
    ELSE S

\* sJSONaddItemToObject without the assignment to nameHash.
AddWithoutHash(S, object, string, item) ==
    IF item = NULLP THEN S
    ELSE sJSONaddItemToArray(
             SetNameString(IF ws /\ S.nodes[item].nameString # NULLP
                           THEN FreeBuf(S, S.nodes[item].nameString) ELSE S,
                           item, string),
             object, item)

sJSONaddItemToObject(S, object, string, item) ==
    IF item = NULLP THEN S
    ELSE Let(SetNameString(IF ws /\ S.nodes[item].nameString # NULLP
                           THEN FreeBuf(S, S.nodes[item].nameString) ELSE S,
                           item, string), LAMBDA S1 :
             sJSONaddItemToArray([S1 EXCEPT !.nodes[item].nameHash = murmurString(string)],
                                 object, item))

sJSONaddItemReferenceToObject(S, object, string, item) ==
    Let(create_reference(S, item), LAMBDA S1 :
        sJSONaddItemToObject(S1, object, string, Len(S1.nodes)))

\* sJSONdetachItemFromArray without the update of array->child.
DetachKeepingHead(S, array, which) ==
    Let(WalkIndex(S, S.nodes[array].child, which), LAMBDA c :
        IF c = NULLP THEN [S |-> S, ret |-> NULLP]
        ELSE Let(IF S.nodes[c].prev # NULLP
                 THEN [S EXCEPT !.nodes[S.nodes[c].prev].next = S.nodes[c].next]
                 ELSE S, LAMBDA S1 :
             Let(IF S1.nodes[c].next # NULLP
                 THEN [S1 EXCEPT !.nodes[S1.nodes[c].next].prev = S1.nodes[c].prev]
                 ELSE S1, LAMBDA S2 :
                 [S |-> [S2 EXCEPT !.nodes[c].prev = NULLP, !.nodes[c].next = NULLP],
                  ret |-> c]
             )))

\* sJSONdetachItemFromArray: the store and the node returned.
sJSONdetachItemFromArray(S, array, which) ==
    Let(WalkIndex(S, S.nodes[array].child, which), LAMBDA c :
        IF c = NULLP THEN [S |-> S, ret |-> NULLP]
        ELSE Let(IF S.nodes[c].prev # NULLP
                 THEN [S EXCEPT !.nodes[S.nodes[c].prev].next = S.nodes[c].next]
                 ELSE S, LAMBDA S1 :
             Let(IF S1.nodes[c].next # NULLP
                 THEN [S1 EXCEPT !.nodes[S1.nodes[c].next].prev = S1.nodes[c].prev]
                 ELSE S1, LAMBDA S2 :
             Let(IF c = S2.nodes[array].child
                 THEN [S2 EXCEPT !.nodes[array].child = S2.nodes[c].next]
                 ELSE S2, LAMBDA S3 :
                 [S |-> [S3 EXCEPT !.nodes[c].prev = NULLP, !.nodes[c].next = NULLP],
                  ret |-> c]
             ))))

sJSONdeleteItemFromArray(S, array, which) ==
    Let(sJSONdetachItemFromArray(S, array, which), LAMBDA d : sJSONdelete(d.S, d.ret))

\* sJSONdetachItemFromObject detaching the member after the one found.
DetachNextMember(S, object, string) ==
    Let(WalkHash(S, S.nodes[object].child, murmurString(string), 0), LAMBDA f :
        IF f.c # NULLP THEN sJSONdetachItemFromArray(S, object, f.i + 1)
        ELSE [S |-> S, ret |-> NULLP])

sJSONdetachItemFromObject(S, object, string) ==
    Let(WalkHash(S, S.nodes[object].child, murmurString(string), 0), LAMBDA f :
        IF f.c # NULLP THEN sJSONdetachItemFromArray(S, object, f.i)
        ELSE [S |-> S, ret |-> NULLP])

sJSONdeleteItemFromObject(S, object, string) ==
    Let(sJSONdetachItemFromObject(S, object, string), LAMBDA d : sJSONdelete(d.S, d.ret))

\* sJSONreplaceItemInArray, for a newitem that is a node.
sJSONreplaceItemInArray(S, array, which, newitem) ==
    Let(WalkIndex(S, S.nodes[array].child, which), LAMBDA c :
        IF c = NULLP THEN S
        ELSE Let([S EXCEPT !.nodes[newitem].next = S.nodes[c].next,
                           !.nodes[newitem].prev = S.nodes[c].prev], LAMBDA S1 :
             Let(IF S1.nodes[newitem].next # NULLP
                 THEN [S1 EXCEPT !.nodes[S1.nodes[newitem].next].prev = newitem]
                 ELSE S1, LAMBDA S2 :
             Let(IF c = S2.nodes[array].child
                 THEN [S2 EXCEPT !.nodes[array].child = newitem]
                 ELSE [S2 EXCEPT !.nodes[S2.nodes[newitem].prev].next = newitem], LAMBDA S3 :
                 sJSONdelete([S3 EXCEPT !.nodes[c].next = NULLP, !.nodes[c].prev = NULLP], c)
             ))))

\* sJSONreplaceItemInObject as a deletion of the old member followed by an
\* append of the new one.
ReplaceByAppend(S, object, string, newitem) ==
    IF sJSONgetObjectItem(S, object, murmurString(string)) = NULLP THEN S
    ELSE sJSONaddItemToObject(sJSONdeleteItemFromObject(S, object, string),
                              object, string, newitem)

sJSONreplaceItemInObject(S, object, string, newitem) ==
    Let(WalkHash(S, S.nodes[object].child, murmurString(string), 0), LAMBDA f :
        IF f.c = NULLP THEN S
        ELSE Let(SetNameString(S, newitem, string), LAMBDA S1 :
                 sJSONreplaceItemInArray(
                     [S1 EXCEPT !.nodes[newitem].nameHash = murmurString(string)],
                     object, f.i, newitem)))

\* sJSONcreateNull, sJSONcreateArray: the new node is Len(S.nodes).
sJSONcreateNull(S) ==
    Let(New_Item(S), LAMBDA S1 : [S1 EXCEPT !.nodes[Len(S1.nodes)].type = sJSON_NULL])

sJSONcreateArray(S) ==
    Let(New_Item(S), LAMBDA S1 : [S1 EXCEPT !.nodes[Len(S1.nodes)].type = sJSON_Array])

(* ------------------------- the typed accessors ------------------------- *)
\* json::Any over node n of store S: each predicate compares the whole
\* field type with one kind.
isNull(S, n) == S.nodes[n].type = sJSON_NULL
isBool(S, n) == S.nodes[n].type = sJSON_True \/ S.nodes[n].type = sJSON_False
isNumber(S, n) == S.nodes[n].type = sJSON_Number
isString(S, n) == S.nodes[n].type = sJSON_String
isArray(S, n) == S.nodes[n].type = sJSON_Array
isMap(S, n) == S.nodes[n].type = sJSON_Object

(* ------------------------- the tree of a node -------------------------- *)
\* What a reader of the tree sees from node c: its kind, key hash, string
\* value, number, and the same for the nodes of its child chain, in order.
RECURSIVE TreeOf(_, _)
RECURSIVE ChainOf(_, _)
TreeOf(S, c) ==
    LET n == S.nodes[c]
        kind == n.type % sJSON_IsReference
    IN  [kind |-> kind,
         hash |-> n.nameHash,
         str |-> IF kind = sJSON_String /\ n.valueString # NULLP
                 THEN CStr(S.bufs[n.valueString].data) ELSE << >>,
         num |-> IF kind = sJSON_Number THEN n.valueDouble ELSE Zero,
         kids |-> IF kind = sJSON_Array \/ kind = sJSON_Object
                  THEN ChainOf(S, n.child) ELSE << >>]

ChainOf(S, c) ==
    IF c = NULLP THEN << >> ELSE <<TreeOf(S, c)>> \o ChainOf(S, S.nodes[c].next)

(* ------------------------ one document's pipeline ---------------------- *)
\* The fragments the input documents are concatenated from.
Frags ==
    << Chars(<<"{">>), Chars(<<"}">>), Chars(<<"[">>), Chars(<<"]">>),
       Chars(<<"1", ",">>), Chars(<<"1">>), Chars(<<"sp">>),
       Chars(<<"a", "=", "1">>),
       Chars(<<"quote", "k", "quote", ":", "sp">>),
       Chars(<<"quote", "s", "bslash", "n", "quote">>),
       Chars(<<"-", "2", ".", "5">>),
       Chars(<<"1", "e", "9", "9", "9">>),
       Chars(<<"1", "e", "-", "1", "7">>),
       Chars(<<"t", "r", "u", "e">>) >>

RECURSIVE DocsOf(_)
DocsOf(k) ==
    IF k = 0 THEN {<< >>}
    ELSE DocsOf(k - 1) \cup {d \o Frags[i] : d \in DocsOf(k - 1), i \in DOMAIN Frags}

Docs == DocsOf(MaxFrags)

NoRes == [status |-> "none", kind |-> 0, root |-> NULLP, S |-> EmptyStore, end |-> NULLP]
NoOut == [fmt |-> FALSE, out |-> NULLP, text |-> << >>, S |-> EmptyStore]
NoCall ==
    [op |-> "none", which |-> 0, key |-> << >>, item |-> NULLP, ret |-> NULLP,
     S0 |-> EmptyStore]
NoTwin == [op |-> "none", at |-> 0, piece |-> << >>, text |-> << >>, res |-> NoRes]
NoCur == [start |-> NULLP, end |-> NULLP]

\* What a caller of sJSONparse(t) can observe.  A call that ran into
\* undefined behaviour either never returns ("crash": the read through the
\* null pointer or past the text traps) or goes on as if the read had
\* given 0, which makes every caller of skip() return null.
Observable(t) ==
    Let(sJSONparse(t), LAMBDA r :
        IF r.status # "ub" THEN {r}
        ELSE {[r EXCEPT !.status = "crash"],
              [r EXCEPT !.status = "null", !.S = sJSONdelete(r.S, 1)]})

PipeInit ==
    /\ ws \in BOOLEAN
    /\ text \in Docs
    /\ pc = "start"
    /\ res = NoRes /\ printed = NoOut /\ res2 = NoRes
    /\ heap = EmptyStore /\ root = NULLP /\ hand = {} /\ last = NoCall /\ ops = 0
    /\ twin = NoTwin /\ cur = NoCur

\* sJSONparse(text)
Parse ==
    /\ pc = "start"
    /\ \E r \in Observable(text) : res' = r
    /\ pc' = "parsed"
    /\ UNCHANGED <<ws, text, printed, res2>> /\ UNCHANGED listVars /\ UNCHANGED auxVars

\* sJSONprint(root) (fmt) or sJSONprintUnformatted(root), in the build that
\* has them, under the allocator plan (budget, after): the pointer
\* returned, the text in its buffer and the store after the call.
PrintTree(fmt, budget, after) ==
    /\ pc = "parsed" /\ ws /\ res.status = "tree"
    /\ \E r \in {print_value([res.S EXCEPT !.budget = budget, !.after = after],
                              res.root, 0, fmt)} :
           printed' = [fmt |-> fmt, out |-> r.p,
                       text |-> IF r.p = NULLP THEN << >> ELSE r.S.bufs[r.p].data,
                       S |-> r.S]
    /\ pc' = "printed"
    /\ UNCHANGED <<ws, text, res, res2>> /\ UNCHANGED listVars /\ UNCHANGED auxVars

\* sJSONparse of the printed text.
Reparse ==
    /\ pc = "printed" /\ printed.out # NULLP
    /\ \E r \in Observable(printed.text) : res2' = r
    /\ pc' = "reparsed"
    /\ UNCHANGED <<ws, text, res, printed>> /\ UNCHANGED listVars /\ UNCHANGED auxVars

\* sJSONdelete of the root that sJSONparse(text) returned.
Teardown ==
    /\ pc = "parsed" /\ res.status = "tree"
    /\ res' = [res EXCEPT !.S = sJSONdelete(res.S, res.root)]
    /\ pc' = "freed"
    /\ UNCHANGED <<ws, text, printed, res2>> /\ UNCHANGED listVars /\ UNCHANGED auxVars

\* The text starts, after what skip() passes over, with neither a brace nor
\* a bracket: sJSONparse reads it as the body of the implicit object.
IsBody(t) ==
    /\ skip(t, 1) > 0
    /\ Rd(t, skip(t, 1)) # Ord("{") /\ Rd(t, skip(t, 1)) # Ord("[")

\* sJSONparse of the text put between braces.
ParseBraced ==
    /\ pc = "parsed" /\ IsBody(text)
    /\ \E r \in Observable(<<Ord("{")>> \o text \o <<Ord("}")>>) :
           twin' = [op |-> "braced", at |-> 0, piece |-> << >>,
                    text |-> <<Ord("{")>> \o text \o <<Ord("}")>>, res |-> r]
    /\ pc' = "twin"
    /\ UNCHANGED <<ws, text, res, printed, res2, cur>> /\ UNCHANGED listVars

PipeNext ==
    \/ Parse \/ (\E fmt \in BOOLEAN : PrintTree(fmt, -1, TRUE)) \/ Reparse
    \/ Teardown \/ ParseBraced

SpecParse == PipeInit /\ [][PipeNext]_vars

(* ------------------------- the skipper alone --------------------------- *)
\* The characters of the texts skipped: what opens and closes comments,
\* white space, a line end and a character that is none of these.
SkipBytes == {Ord("/"), Ord("*"), Ord("sp"), Ord("nl"), Ord("a")}

SkipTexts == UNION {[1..n -> SkipBytes] : n \in 0..MaxSkipLen}

SkipInit ==
    /\ ws \in BOOLEAN
    /\ text \in SkipTexts
    /\ pc = "start"
    /\ res = NoRes /\ printed = NoOut /\ res2 = NoRes
    /\ heap = EmptyStore /\ root = NULLP /\ hand = {} /\ last = NoCall /\ ops = 0
    /\ twin = NoTwin /\ cur = NoCur

\* skip(in) for a cursor into the text, the terminator included.
Skip ==
    /\ pc = "start"
    /\ \E in \in 1..(Len(text) + 1) : cur' = [start |-> in, end |-> skip(text, in)]
    /\ pc' = "skipped"
    /\ UNCHANGED <<ws, text, res, printed, res2, heap, root, hand, last, ops, twin>>

SkipNext == Skip

SpecSkip == SkipInit /\ [][SkipNext]_vars

(* ------------------------- strings and escapes ------------------------- *)
\* The code points of the \u escapes decoded: all that four hexadecimal
\* digits can name but 0.
CodePoints == 1..65535

UpperHex(b) == IF b >= Ord("a") THEN b - 32 ELSE b

\* The four hexadecimal digits of c, in lower or in upper case.
Hex4(c, upper) ==
    Let(<<HexDigit(c \div 4096), HexDigit((c \div 256) % 16), HexDigit((c \div 16) % 16),
          HexDigit(c % 16)>>, LAMBDA h :
        IF upper THEN [i \in 1..4 |-> UpperHex(h[i])] ELSE h)

\* The bytes of the strings encoded: control characters, the quote, the
\* backslash, letters an escape is written with, and bytes above 127.
RawBytes == {1, 8, 9, 10, 11, 12, 13, 31, 32, 34, 47, 48, 92, 97, 117, 127, 128, 255}

RawStrings == UNION {[1..n -> RawBytes] : n \in 0..MaxStrLen}

\* Either the quoted string "\uXXXX" with or without a character after the
\* escape, or a string in memory to be encoded first.
StringInit ==
    /\ ws = TRUE
    /\ pc = "start"
    /\ \/ \E c \in CodePoints, upper \in BOOLEAN, tail \in {<< >>, <<Ord("a")>>} :
            /\ text = <<Ord("quote"), Ord("bslash"), Ord("u")>> \o Hex4(c, upper) \o tail
                       \o <<Ord("quote")>>
            /\ last = [NoCall EXCEPT !.op = "escape", !.which = c, !.key = tail]
       \/ \E str \in RawStrings :
            /\ text = << >>
            /\ last = [NoCall EXCEPT !.op = "raw", !.key = str]
    /\ res = NoRes /\ printed = NoOut /\ res2 = NoRes
    /\ heap = EmptyStore /\ root = NULLP /\ hand = {} /\ ops = 0
    /\ twin = NoTwin /\ cur = NoCur

\* print_string_ptr(str) for the string in memory: its result is the text
\* decoded next.
PrintStringPtr ==
    /\ pc = "start" /\ last.op = "raw"
    /\ Let(print_string_ptr(NewBuf(EmptyStore, last.key, Len(last.key) + 1), 1), LAMBDA r :
           /\ printed' = [NoOut EXCEPT !.out = r.p, !.text = r.S.bufs[r.p].data, !.S = r.S]
           /\ text' = r.S.bufs[r.p].data)
    /\ pc' = "encoded"
    /\ UNCHANGED <<ws, res, res2, heap, root, hand, last, ops, twin, cur>>

\* parse_string(item, text) for a new item.
ParseString ==
    /\ \/ pc = "start" /\ last.op = "escape"
       \/ pc = "encoded"
       \/ pc = "start" /\ last.op = "literal" /\ Rd(text, 1) = Ord("quote")
    /\ Let(parse_string(text, New_Item(EmptyStore), 1, 1), LAMBDA r :
           /\ heap' = r.S
           /\ cur' = [start |-> 1, end |-> r.p])
    /\ pc' = "decoded"
    /\ UNCHANGED <<ws, text, res, printed, res2, root, hand, last, ops, twin>>

StringNext == PrintStringPtr \/ ParseString

SpecString == StringInit /\ [][StringNext]_vars

(* ----------------------- one literal, well made or not ---------------- *)
\* The characters of the literals: digits, the point, the exponent letter,
\* the sign, the quote, the backslash, the letter of the unicode escape, and
\* a bracket that belongs to no literal.
LitBytes ==
    {Ord("1"), Ord("0"), Ord("."), Ord("e"), Ord("-"), Ord("quote"), Ord("bslash"), Ord("u"),
     Ord("]")}

LitTexts == UNION {[1..n -> LitBytes] : n \in 1..MaxLitLen}

LiteralInit ==
    /\ ws \in BOOLEAN
    /\ text \in LitTexts
    /\ pc = "start"
    /\ last = [NoCall EXCEPT !.op = "literal"]
    /\ res = NoRes /\ printed = NoOut /\ res2 = NoRes
    /\ heap = EmptyStore /\ root = NULLP /\ hand = {} /\ ops = 0
    /\ twin = NoTwin /\ cur = NoCur

\* parse_number(item, text) for a new item, called as parse_value calls it:
\* on a '-' or a digit.
ParseNumber ==
    /\ pc = "start" /\ last.op = "literal"
    /\ Rd(text, 1) = Ord("-") \/ IsDigit(Rd(text, 1))
    /\ Let(parse_number(text, New_Item(EmptyStore), 1, 1), LAMBDA r :
           /\ heap' = r.S
           /\ cur' = [start |-> 1, end |-> r.p])
    /\ pc' = "number"
    /\ UNCHANGED <<ws, text, res, printed, res2, root, hand, last, ops, twin>>

LiteralNext == ParseNumber \/ ParseString

SpecLiteral == LiteralInit /\ [][LiteralNext]_vars

(* ---------------------- rendering under memory failure ----------------- *)
\* The documents rendered: [], {}, [1,"s\n"], {"k": [1,-2.5]},
\* a=1 b=[true], [[null],{a=false}] and [{a={b=[{},1,1]}}].
PrintSeeds ==
    { Chars(<<"[", "]">>),
      Chars(<<"{", "}">>),
      Chars(<<"[", "1", ",", "quote", "s", "bslash", "n", "quote", "]">>),
      Chars(<<"{", "quote", "k", "quote", ":", "sp", "[", "1", ",", "-", "2", ".", "5", "]", "}">>),
      Chars(<<"a", "=", "1", "sp", "b", "=", "[", "t", "r", "u", "e", "]">>),
      Chars(<<"[", "[", "n", "u", "l", "l", "]", ",", "{", "a", "=", "f", "a", "l", "s", "e",
              "}", "]">>),
      Chars(<<"[", "{", "a", "=", "{", "b", "=", "[", "{", "}", ",", "1", ",", "1", "]", "}",
              "}", "]">>) }

PrintInit ==
    /\ ws = TRUE
    /\ text \in PrintSeeds
    /\ pc = "start"
    /\ res = NoRes /\ printed = NoOut /\ res2 = NoRes
    /\ heap = EmptyStore /\ root = NULLP /\ hand = {} /\ last = NoCall /\ ops = 0
    /\ twin = NoTwin /\ cur = NoCur

PrintNext ==
    \/ Parse
    \/ \E fmt \in BOOLEAN, budget \in -1..MaxBudget, after \in BOOLEAN :
           PrintTree(fmt, budget, after)

SpecPrint == PrintInit /\ [][PrintNext]_vars

(* --------------------------- an edited document ------------------------ *)
\* The fragments the documents to be edited are concatenated from.
EditFrags ==
    << Chars(<<"[", "1">>), Chars(<<"1", "]">>), Chars(<<"-", "2", "]">>),
       Chars(<<"quote", "s", "quote", "]">>),
       Chars(<<"{", "a", "=", "1">>), Chars(<<"b", "=", "1", "}">>),
       Chars(<<",">>), Chars(<<"sp">>) >>

RECURSIVE EditDocsOf(_)
EditDocsOf(k) ==
    IF k = 0 THEN {<< >>}
    ELSE EditDocsOf(k - 1)
         \cup {d \o EditFrags[i] : d \in EditDocsOf(k - 1), i \in DOMAIN EditFrags}

EditDocs == EditDocsOf(MaxEditFrags)

\* The comments put into a document.
Comments ==
    { Chars(<<"/", "/", "sp", "a", "nl">>),
      Chars(<<"/", "*", "*", "/">>),
      Chars(<<"/", "*", "*", "*", "/">>),
      Chars(<<"/", "*", "sp", "a", "*", "b", "sp", "*", "/">>),
      Chars(<<"/", "*", "/", "sp", "x", "sp", "*", "/">>) }

EditInit ==
    /\ ws \in BOOLEAN
    /\ text \in EditDocs
    /\ pc = "start"
    /\ res = NoRes /\ printed = NoOut /\ res2 = NoRes
    /\ heap = EmptyStore /\ root = NULLP /\ hand = {} /\ last = NoCall /\ ops = 0
    /\ twin = NoTwin /\ cur = NoCur

\* The text sJSONparse(text) gave a tree for holds one value and nothing
\* else: only white space and comments follow the root, and every bracket
\* and brace has its partner.
Balanced(t, c, d) ==
    Cardinality({i \in DOMAIN t : t[i] = Ord(c)}) = Cardinality({i \in DOMAIN t : t[i] = Ord(d)})

Whole ==
    /\ pc = "parsed" /\ res.status = "tree"
    /\ skip(text, res.end) = Len(text) + 1
    /\ Balanced(text, "{", "}") /\ Balanced(text, "[", "]")

\* t with piece put in before position p.
InsertAt(t, p, piece) == SubSeq(t, 1, p - 1) \o piece \o SubSeq(t, p, Len(t))

\* t with a space in the place of every comma.
Spaced(t) == [i \in DOMAIN t |-> IF t[i] = Ord(",") THEN Ord("sp") ELSE t[i]]

\* The last position before p that holds no space, 0 when there is none.
RECURSIVE PrevNonSpace(_, _)
PrevNonSpace(t, p) ==
    IF p <= 1 THEN 0
    ELSE IF t[p - 1] = Ord("sp") THEN PrevNonSpace(t, p - 1)
    ELSE p - 1

\* The positions where an element or member other than the first starts
\* after white space: a character that starts a value or a key, a space
\* before it, and before the spaces the last character of a value.
ElementStarts(t) ==
    {p \in 2..Len(t) :
        /\ t[p - 1] = Ord("sp")
        /\ \/ IsDigit(t[p]) \/ IsIdStart(t[p])
           \/ t[p] \in {Ord("-"), Ord("["), Ord("{"), Ord("quote")}
        /\ PrevNonSpace(t, p) > 0
        /\ \/ IsDigit(t[PrevNonSpace(t, p)])
           \/ t[PrevNonSpace(t, p)] \in {Ord("]"), Ord("}"), Ord("quote")}}

\* The positions of t where white space is accepted: a space put in there
\* leaves the tree that sJSONparse builds as it is.
SpaceAccepted(t, S, c, p) ==
    \E r \in {sJSONparse(InsertAt(t, p, <<Ord("sp")>>))} :
        r.status = "tree" /\ TreeOf(r.S, r.root) = TreeOf(S, c)

\* sJSONparse of the second text t2, made from text by the edit op.
ParseTwin(op, at, piece, t2) ==
    /\ \E r \in Observable(t2) :
           twin' = [op |-> op, at |-> at, piece |-> piece, text |-> t2, res |-> r]
    /\ pc' = "twin"
    /\ UNCHANGED <<ws, text, res, printed, res2, cur>> /\ UNCHANGED listVars

\* Every separating comma becomes a space.
ReplaceCommas ==
    /\ Whole /\ \E i \in DOMAIN text : text[i] = Ord(",")
    /\ ParseTwin("spaces", 0, << >>, Spaced(text))

\* A comma goes in before an element that follows white space.
InsertComma ==
    /\ Whole
    /\ \E p \in ElementStarts(text) :
           ParseTwin("comma", p, <<Ord(",")>>, InsertAt(text, p, <<Ord(",")>>))

\* A comment goes in where white space is accepted.
InsertComment ==
    /\ Whole
    /\ \E p \in 1..(Len(text) + 1), c \in Comments :
           /\ SpaceAccepted(text, res.S, res.root, p)
           /\ ParseTwin("comment", p, c, InsertAt(text, p, c))

EditNext == Parse \/ ReplaceCommas \/ InsertComma \/ InsertComment

SpecEdit == EditInit /\ [][EditNext]_vars

(* ------------------- a container under the list API -------------------- *)
\* The documents the containers are parsed from: [], [1,1,1], {}, the
\* implicit object a=1b=1a=1, {"a":1,a=1} and ["s",["s"]].
Seeds ==
    { Chars(<<"[", "]">>),
      Chars(<<"[", "1", ",", "1", ",", "1", "]">>),
      Chars(<<"{", "}">>),
      Chars(<<"a", "=", "1", "b", "=", "1", "a", "=", "1">>),
      Chars(<<"{", "quote", "a", "quote", ":", "1", ",", "a", "=", "1", "}">>),
      Chars(<<"[", "quote", "s", "quote", ",", "[", "quote", "s", "quote", "]", "]">>) }

Indexes == -1..MaxIdx
Keys == {Chars(<<"a">>), Chars(<<"b">>)}

ListInit ==
    /\ ws \in BOOLEAN
    /\ text \in Seeds
    /\ \E r \in {sJSONparse(text)} : heap = r.S /\ root = r.root
    /\ hand = {} /\ last = NoCall /\ ops = 0
    /\ pc = "list" /\ res = NoRes /\ printed = NoOut /\ res2 = NoRes
    /\ twin = NoTwin /\ cur = NoCur

\* One call returns: the store and the caller's nodes after it, and the
\* record of the call.
Done(op, which, key, item, ret, S1, hand1) ==
    /\ pc = "list" /\ ops < MaxOps
    /\ heap' = S1 /\ hand' = hand1
    /\ last' = [op |-> op, which |-> which, key |-> key, item |-> item, ret |-> ret,
                S0 |-> heap]
    /\ ops' = ops + 1
    /\ UNCHANGED <<ws, root>> /\ UNCHANGED pipeVars /\ UNCHANGED auxVars

IsObject == pc = "list" /\ heap.nodes[root].type = sJSON_Object

GetArrayItem ==
    \E which \in Indexes :
        Done("sJSONgetArrayItem", which, << >>, NULLP,
             sJSONgetArrayItem(heap, root, which), heap, hand)

GetObjectItem ==
    \E key \in Keys :
        /\ IsObject
        /\ Done("sJSONgetObjectItem", 0, key, NULLP,
                sJSONgetObjectItem(heap, root, murmurString(key)), heap, hand)

AddItemToArray ==
    \E item \in hand \cup {NULLP} :
        Done("sJSONaddItemToArray", 0, << >>, item, NULLP,
             sJSONaddItemToArray(heap, root, item), hand \ {item})

AddItemToObject ==
    \E key \in Keys, item \in hand \cup {NULLP} :
        /\ IsObject
        /\ Done("sJSONaddItemToObject", 0, key, item, NULLP,
                sJSONaddItemToObject(heap, root, key, item), hand \ {item})

DetachItemFromArray ==
    \E which \in Indexes : \E d \in {sJSONdetachItemFromArray(heap, root, which)} :
        Done("sJSONdetachItemFromArray", which, << >>, NULLP, d.ret, d.S,
             hand \cup ({d.ret} \ {NULLP}))

DeleteItemFromArray ==
    \E which \in Indexes :
        Done("sJSONdeleteItemFromArray", which, << >>, NULLP, NULLP,
             sJSONdeleteItemFromArray(heap, root, which), hand)

DetachItemFromObject ==
    \E key \in Keys : \E d \in {sJSONdetachItemFromObject(heap, root, key)} :
        /\ IsObject
        /\ Done("sJSONdetachItemFromObject", 0, key, NULLP, d.ret, d.S,
                hand \cup ({d.ret} \ {NULLP}))

DeleteItemFromObject ==
    \E key \in Keys :
        /\ IsObject
        /\ Done("sJSONdeleteItemFromObject", 0, key, NULLP, NULLP,
                sJSONdeleteItemFromObject(heap, root, key), hand)

\* The new item is the container's once the old one was found, and stays
\* the caller's otherwise.
ReplaceItemInArray ==
    \E which \in Indexes, newitem \in hand :
        Done("sJSONreplaceItemInArray", which, << >>, newitem, NULLP,
             sJSONreplaceItemInArray(heap, root, which, newitem),
             IF sJSONgetArrayItem(heap, root, which) # NULLP THEN hand \ {newitem} ELSE hand)

ReplaceItemInObject ==
    \E key \in Keys, newitem \in hand :
        /\ IsObject
        /\ Done("sJSONreplaceItemInObject", 0, key, newitem, NULLP,
                sJSONreplaceItemInObject(heap, root, key, newitem),
                IF sJSONgetObjectItem(heap, root, murmurString(key)) # NULLP
                THEN hand \ {newitem} ELSE hand)

\* sJSONcreateNull() and sJSONcreateArray(), in the build that has them.
CreateNull ==
    /\ pc = "list" /\ ws /\ Len(heap.nodes) < MaxNodes
    /\ \E S1 \in {sJSONcreateNull(heap)} :
           Done("sJSONcreateNull", 0, << >>, NULLP, Len(S1.nodes), S1,
                hand \cup {Len(S1.nodes)})

CreateArray ==
    /\ pc = "list" /\ ws /\ Len(heap.nodes) < MaxNodes
    /\ \E S1 \in {sJSONcreateArray(heap)} :
           Done("sJSONcreateArray", 0, << >>, NULLP, Len(S1.nodes), S1,
                hand \cup {Len(S1.nodes)})

\* A reference to a node the caller holds goes into the container; the
\* node stays the caller's.
AddItemReferenceToArray ==
    /\ pc = "list" /\ Len(heap.nodes) < MaxNodes
    /\ \E item \in hand : \E S1 \in {sJSONaddItemReferenceToArray(heap, root, item)} :
           Done("sJSONaddItemReferenceToArray", 0, << >>, item, Len(S1.nodes), S1, hand)

AddItemReferenceToObject ==
    /\ IsObject /\ Len(heap.nodes) < MaxNodes
    /\ \E key \in Keys, item \in hand :
           \E S1 \in {sJSONaddItemReferenceToObject(heap, root, key, item)} :
               Done("sJSONaddItemReferenceToObject", 0, key, item, Len(S1.nodes), S1, hand)

\* sJSONdelete(root): the container is gone and no call on it follows.
Delete ==
    /\ pc = "list" /\ ops < MaxOps
    /\ heap' = sJSONdelete(heap, root)
    /\ last' = [op |-> "sJSONdelete", which |-> 0, key |-> << >>, item |-> root,
                ret |-> NULLP, S0 |-> heap]
    /\ ops' = ops + 1
    /\ pc' = "deleted"
    /\ UNCHANGED <<ws, root, hand, text, res, printed, res2>> /\ UNCHANGED auxVars

Next ==
    \/ GetArrayItem \/ GetObjectItem
    \/ AddItemToArray \/ AddItemToObject
    \/ AddItemReferenceToArray \/ AddItemReferenceToObject
    \/ Delete
    \/ DetachItemFromArray \/ DeleteItemFromArray
    \/ DetachItemFromObject \/ DeleteItemFromObject
    \/ ReplaceItemInArray \/ ReplaceItemInObject
    \/ CreateNull \/ CreateArray

Spec == ListInit /\ [][Next]_vars

(* ------------------------------- claims -------------------------------- *)
Parsed == pc \in {"parsed", "printed", "reparsed"}

\* How often the character named c occurs in t.
Count(t, c) == Cardinality({i \in DOMAIN t : t[i] = Ord(c)})

\* The text res was parsed from holds one value and nothing else: the
\* parse gave a tree, only white space and comments follow the root, and
\* every bracket and brace has its partner.
WellFormed ==
    /\ res.status = "tree"
    /\ skip(text, res.end) = Len(text) + 1
    /\ Count(text, "{") = Count(text, "}")
    /\ Count(text, "[") = Count(text, "]")

\* C1: whenever the parse of the text meets, where a value or a key must
\* start, a character that starts none, sJSONparse returns null and
\* sJSONgetErrorPtr gives the position of that character (position 7, the
\* closing brace, for {"k": }).
C1_FailureReported ==
    (Parsed /\ res.S.site \in {"value", "key"})
        => /\ res.status = "null"
           /\ res.S.ep \in 1..(Len(text) + 1)
           /\ (text = Chars(<<"{", "quote", "k", "quote", ":", "sp", "}">>) => res.S.ep = 7)

\* C2: for a well-formed document, parsing the text that sJSONprint or
\* sJSONprintUnformatted renders from its tree succeeds and gives a tree
\* equal to the first one: kinds, child order, key hashes, string values
\* and the values of the numbers.
C2_RoundTrip ==
    (pc = "reparsed" /\ WellFormed)
        => /\ res2.status = "tree"
           /\ TreeOf(res2.S, res2.root) = TreeOf(res.S, res.root)

\* C3: sJSONparse returns a tree only if nothing but white space and
\* comments follows the root value.
C3_FullInputConsumed ==
    (Parsed /\ res.status = "tree") => skip(text, res.end) = Len(text) + 1

\* C4: sJSONparse returns no tree for a text that is read to its end while
\* an object opened with a brace is still waiting for its closing brace.
C4_EofEndsOnlyImplicitObject ==
    ~ (/\ Parsed /\ res.status = "tree"
       /\ res.end = Len(text) + 1
       /\ Count(text, "{") > Count(text, "}"))

\* The nodes of the sibling chain from c, in order, and the members of the
\* container in store S.
RECURSIVE ChainIds(_, _)
ChainIds(S, c) == IF c = NULLP THEN << >> ELSE <<c>> \o ChainIds(S, S.nodes[c].next)

ChildIds(S) == ChainIds(S, S.nodes[root].child)

\* The positions (from 1) of the members of the container in S whose key
\* hash is that of key.
Matches(S, key) ==
    {i \in DOMAIN ChildIds(S) : S.nodes[ChildIds(S)[i]].nameHash = murmurString(key)}

FirstMatch(S, key) == CHOOSE i \in Matches(S, key) : \A j \in Matches(S, key) : i <= j

SecondMatch(S, key) ==
    CHOOSE i \in Matches(S, key) \ {FirstMatch(S, key)} :
        \A j \in Matches(S, key) \ {FirstMatch(S, key)} : i <= j

Lookup(S, key) == sJSONgetObjectItem(S, root, murmurString(key))

\* C5 as stated: after sJSONaddItemToObject(o, k, v) with a node v, the
\* lookup of hash(k) in o returns v, whatever o held before.
C5_AddThenLookup ==
    (last.op = "sJSONaddItemToObject" /\ last.item # NULLP)
        => Lookup(heap, last.key) = last.item

\* C5 amended: after sJSONaddItemToObject(o, k, v) with a node v, the
\* lookup of hash(k) in o returns v when no member of o had that key hash
\* before the call, and the first member that had it otherwise.
C5_AddThenLookupFirstMatch ==
    (last.op = "sJSONaddItemToObject" /\ last.item # NULLP)
        => Lookup(heap, last.key) =
               IF Matches(last.S0, last.key) = {} THEN last.item
               ELSE Lookup(last.S0, last.key)

C5_Witness ==
    /\ last.op = "sJSONaddItemToObject" /\ last.item # NULLP
    /\ ChildIds(last.S0) # << >>
    /\ Matches(last.S0, last.key) = {}
    /\ Lookup(heap, last.key) = last.item

\* C6 as stated: after sJSONdetachItemFromObject(o, k) the lookup of
\* hash(k) in o returns none, duplicate keys included.
C6_DetachThenLookup ==
    last.op = "sJSONdetachItemFromObject" => Lookup(heap, last.key) = NULLP

\* C6 amended: sJSONdetachItemFromObject(o, k) takes out the first member
\* with the key hash of k only: afterwards the lookup of hash(k) returns
\* none when o held at most one such member, and the second of them
\* otherwise.
C6_DetachThenLookupNextMatch ==
    last.op = "sJSONdetachItemFromObject"
        => Lookup(heap, last.key) =
               IF Cardinality(Matches(last.S0, last.key)) <= 1 THEN NULLP
               ELSE ChildIds(last.S0)[SecondMatch(last.S0, last.key)]

C6_Witness ==
    /\ last.op = "sJSONdetachItemFromObject"
    /\ Cardinality(Matches(last.S0, last.key)) = 1
    /\ Len(ChildIds(last.S0)) > 1
    /\ last.ret = Lookup(last.S0, last.key)
    /\ Lookup(heap, last.key) = NULLP

IndexOps ==
    {"sJSONgetArrayItem", "sJSONdetachItemFromArray", "sJSONdeleteItemFromArray",
     "sJSONreplaceItemInArray"}

KeyOps ==
    {"sJSONgetObjectItem", "sJSONdetachItemFromObject", "sJSONdeleteItemFromObject",
     "sJSONreplaceItemInObject"}

\* C7: a call that names an index outside 0..size-1, negative ones
\* included, or a key that no member has, returns null and leaves the
\* store, and with it the container's child list, as it was.
C7_MissingChangesNothing ==
    (\/ /\ last.op \in IndexOps
        /\ (last.which < 0 \/ last.which >= sJSONgetArraySize(last.S0, root))
     \/ /\ last.op \in KeyOps
        /\ Matches(last.S0, last.key) = {})
        => /\ last.ret = NULLP
           /\ heap = last.S0

\* C8: after sJSONreplaceItemInObject(o, k, n) on an object that has a
\* member with key k, the child list of o is the one before the call with
\* n in place of the first member matching k: as many members, the others
\* where they were, n with the hash of k, and the old node out of the list
\* and released.
C8_ReplaceInPlace ==
    (last.op = "sJSONreplaceItemInObject" /\ Matches(last.S0, last.key) # {})
        => /\ sJSONgetArraySize(heap, root) = sJSONgetArraySize(last.S0, root)
           /\ ChildIds(heap) =
                  [ChildIds(last.S0) EXCEPT ![FirstMatch(last.S0, last.key)] = last.item]
           /\ heap.nodes[last.item].nameHash = murmurString(last.key)
           /\ \A i \in DOMAIN ChildIds(heap) :
                  ChildIds(heap)[i] # Lookup(last.S0, last.key)
           /\ Lookup(last.S0, last.key) \notin heap.liveN

C8_Witness ==
    /\ last.op = "sJSONreplaceItemInObject"
    /\ Len(ChildIds(last.S0)) = 3
    /\ FirstMatch(last.S0, last.key) = 2
    /\ ChildIds(heap)[2] = last.item

\* C9: sJSONdetachItemFromArray(array, i) with 0 <= i < n on an array of n
\* items returns the i-th item, live and with both sibling links null;
\* the size is then n-1 and the items left are the others in their order.
C9_DetachFromArray ==
    (/\ last.op = "sJSONdetachItemFromArray"
     /\ last.which >= 0 /\ last.which < sJSONgetArraySize(last.S0, root))
        => /\ last.ret = ChildIds(last.S0)[last.which + 1]
           /\ heap.nodes[last.ret].next = NULLP /\ heap.nodes[last.ret].prev = NULLP
           /\ last.ret \in heap.liveN
           /\ sJSONgetArraySize(heap, root) = sJSONgetArraySize(last.S0, root) - 1
           /\ ChildIds(heap) =
                  SubSeq(ChildIds(last.S0), 1, last.which)
                  \o SubSeq(ChildIds(last.S0), last.which + 2, Len(ChildIds(last.S0)))

C9_Witness ==
    /\ last.op = "sJSONdetachItemFromArray"
    /\ last.which = 1 /\ Len(ChildIds(last.S0)) = 3
    /\ Len(ChildIds(heap)) = 2

\* C10: sJSONaddItemToArray(array, x) with a detached node x makes the
\* size one more, x the last item, and leaves the earlier items at their
\* indexes; with a null x the store is unchanged.
C10_AddToArray ==
    last.op = "sJSONaddItemToArray"
        => IF last.item = NULLP THEN heap = last.S0
           ELSE /\ sJSONgetArraySize(heap, root) = sJSONgetArraySize(last.S0, root) + 1
                /\ sJSONgetArrayItem(heap, root, sJSONgetArraySize(heap, root) - 1) = last.item
                /\ \A j \in 0..(sJSONgetArraySize(last.S0, root) - 1) :
                       sJSONgetArrayItem(heap, root, j) = sJSONgetArrayItem(last.S0, root, j)

C10_Witness ==
    /\ last.op = "sJSONaddItemToArray" /\ last.item # NULLP
    /\ sJSONgetArraySize(last.S0, root) >= 1
    /\ sJSONgetArrayItem(heap, root, sJSONgetArraySize(last.S0, root)) = last.item

\* The key texts of the members of a seed document, in the order written.
SeedKeys(t) ==
    CASE t = Chars(<<"a", "=", "1", "b", "=", "1", "a", "=", "1">>)
             -> <<Chars(<<"a">>), Chars(<<"b">>), Chars(<<"a">>)>>
      [] t = Chars(<<"{", "quote", "a", "quote", ":", "1", ",", "a", "=", "1", "}">>)
             -> <<Chars(<<"a">>), Chars(<<"a">>)>>
      [] OTHER -> << >>

\* The key hashes stored on the members of the container in S, in order.
ChildHashes(S) == [i \in DOMAIN ChildIds(S) |-> S.nodes[ChildIds(S)[i]].nameHash]

\* C11: sJSONgetObjectItem(o, h) returns the first child of o, in sibling
\* order, whose stored key hash is h, and none when no child has it; the
\* members of a parsed object carry the hashes of their key texts, quoted
\* or bareword, in the order written, so that of duplicate keys the
\* earliest in the text is the one found.
C11_LookupFirstMatch ==
    /\ last.op = "sJSONgetObjectItem"
          => last.ret = IF Matches(last.S0, last.key) = {} THEN NULLP
                        ELSE ChildIds(last.S0)[FirstMatch(last.S0, last.key)]
    /\ (ops = 0 /\ IsObject)
          => ChildHashes(heap) =
                 [i \in DOMAIN SeedKeys(text) |-> murmurString(SeedKeys(text)[i])]
    /\ (ops = 1 /\ last.op = "sJSONgetObjectItem" /\ SeedKeys(text) # << >>
           /\ last.key = Chars(<<"a">>))
          => last.ret = ChildIds(last.S0)[1]

C11_Witness ==
    /\ ops = 1 /\ last.op = "sJSONgetObjectItem"
    /\ text = Chars(<<"{", "quote", "a", "quote", ":", "1", ",", "a", "=", "1", "}">>)
    /\ Cardinality(Matches(last.S0, last.key)) = 2
    /\ last.ret = ChildIds(last.S0)[1]

IsRef(S, c) == S.nodes[c].type \div sJSON_IsReference % 2 = 1

\* The nodes that the node c owns, itself included: a node that is not a
\* reference owns its child chain and what the nodes on it own.
RECURSIVE OwnedNodes(_, _)
RECURSIVE OwnedChain(_, _)
OwnedNodes(S, c) ==
    {c} \cup (IF IsRef(S, c) THEN {} ELSE OwnedChain(S, S.nodes[c].child))

OwnedChain(S, c) ==
    IF c = NULLP THEN {} ELSE OwnedNodes(S, c) \cup OwnedChain(S, S.nodes[c].next)

\* The text buffers the nodes owned by c own.
OwnedBufs(S, c) ==
    ({S.nodes[n].valueString : n \in {m \in OwnedNodes(S, c) : ~IsRef(S, m)}}
     \cup {S.nodes[n].nameString : n \in OwnedNodes(S, c)}) \ {NULLP}

\* The references among the members of the container in S to the node x:
\* the copies of x that carry the flag.
RefsTo(S, x) ==
    {r \in {ChildIds(S)[i] : i \in DOMAIN ChildIds(S)} :
        /\ IsRef(S, r)
        /\ S.nodes[r].child = S.nodes[x].child
        /\ S.nodes[r].valueString = S.nodes[x].valueString
        /\ S.nodes[r].type % sJSON_IsReference = S.nodes[x].type % sJSON_IsReference}

\* C12: sJSONdelete(c) of a container c that holds references to nodes x
\* of the caller releases c and the reference nodes, and neither x, nor a
\* node of the subtree of x, nor a text buffer of theirs: these are live
\* and as they were, and nothing is released twice.
C12_TeardownSkipsReferences ==
    last.op = "sJSONdelete"
        => /\ heap.fault = "none"
           /\ root \notin heap.liveN
           /\ \A x \in hand :
                  /\ \A r \in RefsTo(last.S0, x) : r \notin heap.liveN
                  /\ \A n \in OwnedNodes(last.S0, x) :
                         n \in heap.liveN /\ heap.nodes[n] = last.S0.nodes[n]
                  /\ OwnedBufs(last.S0, x) \subseteq heap.liveB

C12_Witness ==
    /\ last.op = "sJSONdelete"
    /\ \E x \in hand :
           /\ RefsTo(last.S0, x) # {}
           /\ heap.nodes[x].child # NULLP
           /\ heap.nodes[heap.nodes[x].child].valueString \in heap.liveB
           /\ heap.nodes[x].child \in heap.liveN

\* C13: in both builds, after sJSONparse has returned a tree and sJSONdelete
\* has been called on its root, no node and no text buffer that the parse
\* allocated is live, and none was released twice.
C13_TeardownReleasesAll ==
    pc = "freed"
        => /\ res.S.liveN = {}
           /\ res.S.liveB = {}
           /\ res.S.fault = "none"

\* The tree of the second text is the tree of the first.
SameTree ==
    /\ res.status = "tree" /\ twin.res.status = "tree"
    /\ TreeOf(twin.res.S, twin.res.root) = TreeOf(res.S, res.root)

\* C14: for a text B that starts with neither a brace nor a bracket,
\* sJSONparse(B) returns a tree exactly when sJSONparse of B between
\* braces does, and then both trees are equal with a root of kind Object;
\* a=1 gives an object with the one member a = 1.
C14_ImplicitObject ==
    (pc = "twin" /\ twin.op = "braced")
        => /\ (res.status = "tree") = (twin.res.status = "tree")
           /\ res.status = "tree"
                 => SameTree /\ res.S.nodes[res.root].type = sJSON_Object
           /\ text = Chars(<<"a", "=", "1">>)
                 => /\ res.status = "tree"
                    /\ Len(TreeOf(res.S, res.root).kids) = 1
                    /\ TreeOf(res.S, res.root).kids[1].hash = murmurString(Chars(<<"a">>))
                    /\ TreeOf(res.S, res.root).kids[1].num = MkDec(FALSE, <<1>>, 0)

\* C15: for a document that holds one whole value, the text with a space
\* in the place of every separating comma, and the text with one comma put
\* in before an element that follows white space, parse to a tree equal to
\* the first: no node is added, removed or moved.
C15_CommasOptional ==
    (pc = "twin" /\ twin.op \in {"spaces", "comma"}) => SameTree

C15_Witness ==
    /\ pc = "twin" /\ twin.op = "spaces"
    /\ text = Chars(<<"[", "1", ",", "-", "2", "]">>)
    /\ SameTree
    /\ Len(TreeOf(twin.res.S, twin.res.root).kids) = 2

\* C16: for a document that holds one whole value, the text with a line
\* comment ended by a newline or a block comment, whatever its content,
\* put in where white space is accepted parses to a tree equal to the
\* first.
C16_CommentsAreWhitespace ==
    (pc = "twin" /\ twin.op = "comment") => SameTree

\* C20: when an allocation fails during sJSONprint or sJSONprintUnformatted,
\* whichever it is, the call returns null, every buffer allocated during the
\* call has been released and none twice, and the tree is as it was.
C20_PrintAllOrNothing ==
    (pc = "printed" /\ printed.S.denied > 0)
        => /\ printed.out = NULLP
           /\ printed.S.liveB = res.S.liveB
           /\ printed.S.fault = "none"
           /\ printed.S.nodes = res.S.nodes
           /\ printed.S.liveN = res.S.liveN
           /\ \A b \in DOMAIN res.S.bufs : printed.S.bufs[b] = res.S.bufs[b]

C20_Witness ==
    /\ pc = "printed" /\ printed.S.denied = 1
    /\ printed.out = NULLP
    /\ Len(printed.S.bufs) >= Len(res.S.bufs) + 6
    /\ printed.S.liveB = res.S.liveB

\* The string parse_string stored on its item.
Decoded == heap.bufs[heap.nodes[1].valueString].data

\* The UTF-8 encoding of a code point below 0x10000.
StdUtf8(c) ==
    IF c < 128 THEN <<c>>
    ELSE IF c < 2048 THEN <<192 + (c \div 64), 128 + (c % 64)>>
    ELSE <<224 + (c \div 4096), 128 + ((c \div 64) % 64), 128 + (c % 64)>>

\* C17: a \uXXXX escape of a code point c in 1..0xFFFF, its digits in lower
\* or in upper case, is decoded to the one, two or three bytes of the UTF-8
\* encoding of c, and decoding goes on just past the fourth digit: what
\* follows the escape is stored after those bytes and the call returns the
\* position past the closing quote.
C17_UnicodeEscape ==
    (pc = "decoded" /\ last.op = "escape")
        => /\ cur.end = Len(text) + 1
           /\ heap.nodes[1].type = sJSON_String
           /\ Decoded = StdUtf8(last.which) \o last.key

C17_Witness ==
    /\ pc = "decoded" /\ last.op = "escape"
    /\ last.which = 233
    /\ last.key = <<Ord("a")>>
    /\ Decoded = <<195, 169, Ord("a")>>

\* C18: for every string of non-zero bytes, parse_string applied to the
\* text print_string_ptr made of it stores that very string, returns the
\* position past the end of the text, and stores no more bytes than the
\* length it counted first.
C18_EscapeRoundTrip ==
    (pc = "decoded" /\ last.op = "raw")
        => /\ cur.end = Len(text) + 1
           /\ Decoded = last.key
           /\ Len(Decoded) + 1 <= heap.bufs[heap.nodes[1].valueString].cap
           /\ Len(text) + 1 <= printed.S.bufs[printed.out].cap

C18_Witness ==
    /\ pc = "decoded" /\ last.op = "raw"
    /\ last.key = <<31, Ord("quote")>>
    /\ text = Chars(<<"quote", "bslash", "u", "0", "0", "1", "f", "bslash", "quote", "quote">>)
    /\ Decoded = last.key

\* C19: on every text, skip returns a cursor between the position it was
\* called with and the terminator: it has not read or stepped past the
\* terminator, an unterminated block comment included.
C19_SkipStaysInside ==
    pc = "skipped" => cur.start <= cur.end /\ cur.end <= Len(text) + 1

\* The buffers print_array and print_object composed their text in during
\* the rendering: those whose text opens with a bracket or a brace.
Composed ==
    {b \in (Len(res.S.bufs) + 1)..Len(printed.S.bufs) :
        /\ printed.S.bufs[b].data # << >>
        /\ printed.S.bufs[b].data[1] \in {Ord("["), Ord("{")}}

\* C21: at every depth, compact or formatted, the bytes print_array and
\* print_object write into their output buffer, the terminating NUL
\* included, are no more than the length they asked the allocator for.
C21_LengthIsUpperBound ==
    pc = "printed"
        => \A b \in Composed : Len(printed.S.bufs[b].data) + 1 <= printed.S.bufs[b].cap

C21_Witness ==
    /\ pc = "printed" /\ printed.fmt /\ printed.out # NULLP
    /\ Cardinality(Composed) = 5
    /\ \E b \in Composed :
           /\ printed.S.bufs[b].data[1] = Ord("{")
           /\ printed.S.bufs[b].data[2] = Ord("nl")
           /\ printed.S.bufs[b].data[3] = Ord("tab")
           /\ printed.S.bufs[b].data[4] = Ord("tab")
           /\ printed.S.bufs[b].data[5] = Ord("tab")
    /\ \E b \in Composed :
           /\ printed.S.bufs[b].data[1] = Ord("[")
           /\ Len(printed.S.bufs[b].data) > 3

\* The first n nodes at most of the sibling chain from c.
RECURSIVE ChainUpTo(_, _, _)
ChainUpTo(S, c, n) ==
    IF c = NULLP \/ n = 0 THEN << >> ELSE <<c>> \o ChainUpTo(S, S.nodes[c].next, n - 1)

\* The child chain of the container, cut after one node more than there are.
Walked == ChainUpTo(heap, heap.nodes[root].child, Len(heap.nodes) + 1)

\* C22: after any sequence of calls of the list API with detached or new
\* items, the child list of the container is a chain without a cycle, its
\* head has no previous sibling, every child with a successor is the
\* previous sibling of that successor, no node is on it twice, and
\* sJSONgetArraySize is the number of nodes on it.
C22_ChainWellFormed ==
    pc = "list"
        => /\ Len(Walked) <= Len(heap.nodes)
           /\ \A i, j \in DOMAIN Walked : i # j => Walked[i] # Walked[j]
           /\ Walked # << >> => heap.nodes[Walked[1]].prev = NULLP
           /\ \A i \in 1..(Len(Walked) - 1) :
                  /\ heap.nodes[Walked[i]].next = Walked[i + 1]
                  /\ heap.nodes[Walked[i + 1]].prev = Walked[i]
           /\ sJSONgetArraySize(heap, root) = Len(Walked)

C22_Witness ==
    /\ pc = "list" /\ ops = MaxOps
    /\ last.op = "sJSONreplaceItemInArray"
    /\ Len(Walked) = 3
    /\ Walked[2] = last.item
    /\ heap.nodes[Walked[3]].prev = last.item
    /\ sJSONgetArraySize(heap, root) = 3

\* C23: parse_number and parse_string, on a literal well made or not,
\* return a cursor at or before the terminator and have not read past it.
C23_DecodersStayInside ==
    (pc \in {"number", "decoded"} /\ last.op = "literal")
        => cur.end # OOBP /\ cur.end <= Len(text) + 1

\* C24: for a reference r made of a node x, the one predicate among isNull,
\* isBool, isNumber, isString, isArray and isMap that holds for r is the
\* one of the kind of x.
C24_ReferenceKeepsKind ==
    (/\ pc = "list"
     /\ last.op \in {"sJSONaddItemReferenceToArray", "sJSONaddItemReferenceToObject"}
     /\ last.ret # NULLP)
        => LET K == heap.nodes[last.item].type % sJSON_IsReference IN
           /\ isNull(heap, last.ret) <=> K = sJSON_NULL
           /\ isBool(heap, last.ret) <=> K \in {sJSON_True, sJSON_False}
           /\ isNumber(heap, last.ret) <=> K = sJSON_Number
           /\ isString(heap, last.ret) <=> K = sJSON_String
           /\ isArray(heap, last.ret) <=> K = sJSON_Array
           /\ isMap(heap, last.ret) <=> K = sJSON_Object

====
